---- MODULE Spec2Model ----
(***************************************************************************)
(* Clinic-management server (front-model-atenda): the in-memory record     *)
(* store MemStorage, the route layer registerRoutes built on it and the    *)
(* authentication gate in front of both.                                   *)
(*                                                                         *)
(* A JavaScript Map is modelled as the sequence of its entries in          *)
(* insertion order; an object as a function from field names to values;    *)
(* a string that the code lower-cases as the sequence of its character     *)
(* codes; Array.prototype.filter as SelectSeq.  In the sequential          *)
(* specifications every request handler runs as one atomic action; the     *)
(* concurrent ones split a handler at its awaits, and the requests that    *)
(* are between two awaits are the value of inflight.                       *)
(***************************************************************************)
EXTENDS Integers, Sequences, FiniteSets, TLC

VARIABLES
    usersStore,                 \* MemStorage.usersStore
    patientsStore,              \* MemStorage.patientsStore
    appointmentsStore,          \* MemStorage.appointmentsStore
    medicalRecordsStore,        \* MemStorage.medicalRecordsStore
    whatsappTemplatesStore,     \* MemStorage.whatsappTemplatesStore
    userIdCounter,
    patientIdCounter,
    appointmentIdCounter,
    medicalRecordIdCounter,
    whatsappTemplateIdCounter,
    session,                    \* per client: Anonymous or the id of the logged-in user
    inflight,                   \* per handler slot: the request it runs and where it awaits
    queryData,                  \* per client: the data of its query ["/api/user"]
    resp                        \* the response to the request handled last

stores == <<usersStore, patientsStore, appointmentsStore, medicalRecordsStore,
            whatsappTemplatesStore>>
counters == <<userIdCounter, patientIdCounter, appointmentIdCounter,
              medicalRecordIdCounter, whatsappTemplateIdCounter>>
userVars == <<usersStore, userIdCounter>>
patientVars == <<patientsStore, patientIdCounter>>
appointmentVars == <<appointmentsStore, appointmentIdCounter>>
medicalRecordVars == <<medicalRecordsStore, medicalRecordIdCounter>>
templateVars == <<whatsappTemplatesStore, whatsappTemplateIdCounter>>
vars == <<stores, counters, session, inflight, queryData, resp>>

----------------------------------------------------------------------------
(* Bounds of the model.                                                    *)

MaxUsers == 2
MaxPatients == 2
MaxAppointments == 2
MaxMedicalRecords == 2
MaxTemplates == 2
\* In the specification of all routes together: the records of the four
\* practitioner-owned collections, counted together.
MaxRecords == 2
\* The same count in the specification of the listings.
MaxListed == 3
\* The patients in the specification of concurrent updates.
MaxUpdated == 1
\* The records in the specification of concurrent creates, counted together.
MaxCreated == 3

Clients == {"c1", "c2"}

----------------------------------------------------------------------------
(* JavaScript values.                                                      *)

Undefined == [undefined |-> TRUE]
Null == [null |-> TRUE]

\* { ...a, ...b }: the keys of both, b's value where both have the key.
Spread(a, b) ==
    [k \in (DOMAIN a) \cup (DOMAIN b) |-> IF k \in DOMAIN b THEN b[k] ELSE a[k]]

\* The fields of a record other than its id: const { id, ...rest } = record.
WithoutId(record) == [f \in (DOMAIN record) \ {"id"} |-> record[f]]

\* String.prototype.toLowerCase on a sequence of ASCII character codes.
ToLowerCase(s) ==
    [i \in DOMAIN s |-> IF s[i] >= 65 /\ s[i] <= 90 THEN s[i] + 32 ELSE s[i]]

\* Map.prototype.get
MapGet(m, k) ==
    IF \E i \in DOMAIN m : m[i].key = k
    THEN m[CHOOSE i \in DOMAIN m : m[i].key = k].value
    ELSE Undefined

\* Map.prototype.set as delete followed by set: the entry always goes last.
MapSetReinserts(m, k, v) ==
    Append(SelectSeq(m, LAMBDA e : e.key # k), [key |-> k, value |-> v])

\* Map.prototype.set: an existing key keeps its position, a new key goes last.
MapSet(m, k, v) ==
    IF \E i \in DOMAIN m : m[i].key = k
    THEN [i \in DOMAIN m |-> IF m[i].key = k THEN [key |-> k, value |-> v] ELSE m[i]]
    ELSE Append(m, [key |-> k, value |-> v])

\* Array.from(map.values())
MapValues(m) == [i \in DOMAIN m |-> m[i].value]

\* Array.prototype.find, given the elements that pass in their order (the
\* filter of the array, SelectSeq): the first of them, or undefined.
Find(passing) == IF passing = <<>> THEN Undefined ELSE passing[1]

\* new Date(text) for the :date parameters the model sends: a date-only ISO
\* string is UTC midnight of that day, a date-time string with an offset is the
\* instant it names (here 22:00 at -03:00, which is the next day in UTC), and
\* anything else is an Invalid Date.
NewDate(text) ==
    CASE text = "2024-01-10" -> [valid |-> TRUE, utcDay |-> "2024-01-10"]
      [] text = "2024-01-11" -> [valid |-> TRUE, utcDay |-> "2024-01-11"]
      [] text = "2024-01-10T22:00:00-03:00" -> [valid |-> TRUE, utcDay |-> "2024-01-11"]
      [] OTHER -> [valid |-> FALSE, utcDay |-> ""]

----------------------------------------------------------------------------
(* MemStorage: user operations.                                            *)

GetUser(id) == MapGet(usersStore, id)

\* getUserByUsername comparing the strings as they are.
GetUserByUsernameCaseSensitive(username) ==
    Find(SelectSeq(MapValues(usersStore), LAMBDA user : user.username = username))

GetUserByUsername(username) ==
    Find(SelectSeq(MapValues(usersStore),
                   LAMBDA user : ToLowerCase(user.username) = ToLowerCase(username)))

\* getUserByEmail comparing the strings as they are.
GetUserByEmailCaseSensitive(email) ==
    Find(SelectSeq(MapValues(usersStore), LAMBDA user : user.email = email))

GetUserByEmail(email) ==
    Find(SelectSeq(MapValues(usersStore),
                   LAMBDA user : ToLowerCase(user.email) = ToLowerCase(email)))

\* createUser that reads the counter without advancing it.
CreateUserNoIncrement(insertUser) ==
    LET id == userIdCounter
        user == Spread(insertUser, [id |-> id])
    IN  [result |-> user,
         store |-> MapSet(usersStore, id, user),
         counter |-> userIdCounter]

\* The result of createUser: the user returned, the store and the counter after it.
CreateUser(insertUser) ==
    LET id == userIdCounter
        user == Spread(insertUser, [id |-> id])
    IN  [result |-> user,
         store |-> MapSet(usersStore, id, user),
         counter |-> userIdCounter + 1]

----------------------------------------------------------------------------
(* MemStorage: patient operations.                                         *)

GetPatient(id) == MapGet(patientsStore, id)

GetPatientsByUserId(userId) ==
    SelectSeq(MapValues(patientsStore), LAMBDA patient : patient.userId = userId)

\* createPatient with ++this.patientIdCounter in place of this.patientIdCounter++.
CreatePatientPreIncrement(insertPatient) ==
    LET id == patientIdCounter + 1
        patient == Spread(insertPatient, [id |-> id])
    IN  [result |-> patient,
         store |-> MapSet(patientsStore, id, patient),
         counter |-> patientIdCounter + 1]

\* createPatient that returns the stored patient with the same fields, if there
\* is one, in place of storing a second one.
CreatePatientDeduplicates(insertPatient) ==
    LET id == patientIdCounter
        patient == Spread(insertPatient, [id |-> id])
        existing == Find(SelectSeq(MapValues(patientsStore),
                                   LAMBDA stored : WithoutId(stored) = insertPatient))
    IN  IF existing # Undefined
        THEN [result |-> existing, store |-> patientsStore, counter |-> patientIdCounter]
        ELSE [result |-> patient,
              store |-> MapSet(patientsStore, id, patient),
              counter |-> patientIdCounter + 1]

CreatePatient(insertPatient) ==
    LET id == patientIdCounter
        patient == Spread(insertPatient, [id |-> id])
    IN  [result |-> patient,
         store |-> MapSet(patientsStore, id, patient),
         counter |-> patientIdCounter + 1]

\* updatePatient that stores the updates in place of the record: { ...updates, id }.
UpdatePatientReplace(id, updates) ==
    LET patient == GetPatient(id)
        updatedPatient == Spread(updates, [id |-> id])
    IN  IF patient = Undefined
        THEN [result |-> Undefined, store |-> patientsStore]
        ELSE [result |-> updatedPatient,
              store |-> MapSet(patientsStore, id, updatedPatient)]

\* updatePatient that adds the merged record as a further entry in place of
\* replacing the stored one.
UpdatePatientAppends(id, updates) ==
    LET patient == GetPatient(id)
        updatedPatient == Spread(patient, updates)
    IN  IF patient = Undefined
        THEN [result |-> Undefined, store |-> patientsStore]
        ELSE [result |-> updatedPatient,
              store |-> Append(patientsStore, [key |-> id, value |-> updatedPatient])]

\* updatePatient that drops a patient the update makes inactive.
UpdatePatientDeletesInactive(id, updates) ==
    LET patient == GetPatient(id)
        updatedPatient == Spread(patient, updates)
    IN  IF patient = Undefined
        THEN [result |-> Undefined, store |-> patientsStore]
        ELSE IF "status" \in DOMAIN updates /\ updates.status = "inactive"
        THEN [result |-> updatedPatient,
              store |-> SelectSeq(patientsStore, LAMBDA e : e.key # id)]
        ELSE [result |-> updatedPatient,
              store |-> MapSet(patientsStore, id, updatedPatient)]

\* updatePatient that creates the record when the id is absent.
UpdatePatientUpserts(id, updates) ==
    LET patient == GetPatient(id)
        updatedPatient == IF patient = Undefined THEN Spread(updates, [id |-> id])
                          ELSE Spread(patient, updates)
    IN  [result |-> updatedPatient,
         store |-> MapSet(patientsStore, id, updatedPatient)]

UpdatePatient(id, updates) ==
    LET patient == GetPatient(id)
        updatedPatient == Spread(patient, updates)
    IN  IF patient = Undefined
        THEN [result |-> Undefined, store |-> patientsStore]
        ELSE [result |-> updatedPatient,
              store |-> MapSet(patientsStore, id, updatedPatient)]

----------------------------------------------------------------------------
(* MemStorage: appointment operations.                                     *)

GetAppointment(id) == MapGet(appointmentsStore, id)

GetAppointmentsByUserId(userId) ==
    SelectSeq(MapValues(appointmentsStore),
           LAMBDA appointment : appointment.userId = userId)

GetAppointmentsByPatientId(patientId) ==
    SelectSeq(MapValues(appointmentsStore),
           LAMBDA appointment : appointment.patientId = patientId)

\* date.toISOString().split('T')[0] of a valid Date: its UTC calendar day.
ToISODateString(date) == date.utcDay

\* getAppointmentsForDate without the userId test.
GetAppointmentsForDateAnyUser(userId, date) ==
    LET dateString == ToISODateString(date)
    IN  SelectSeq(MapValues(appointmentsStore),
               LAMBDA appointment : appointment.date = dateString)

GetAppointmentsForDate(userId, date) ==
    LET dateString == ToISODateString(date)
    IN  SelectSeq(MapValues(appointmentsStore),
               LAMBDA appointment :
                   appointment.userId = userId /\ appointment.date = dateString)

CreateAppointment(insertAppointment) ==
    LET id == appointmentIdCounter
        appointment == Spread(insertAppointment, [id |-> id])
    IN  [result |-> appointment,
         store |-> MapSet(appointmentsStore, id, appointment),
         counter |-> appointmentIdCounter + 1]

UpdateAppointment(id, updates) ==
    LET appointment == GetAppointment(id)
        updatedAppointment == Spread(appointment, updates)
    IN  IF appointment = Undefined
        THEN [result |-> Undefined, store |-> appointmentsStore]
        ELSE [result |-> updatedAppointment,
              store |-> MapSet(appointmentsStore, id, updatedAppointment)]

----------------------------------------------------------------------------
(* MemStorage: medical record operations.                                  *)

GetMedicalRecord(id) == MapGet(medicalRecordsStore, id)

GetMedicalRecordsByPatientId(patientId) ==
    SelectSeq(MapValues(medicalRecordsStore),
           LAMBDA record : record.patientId = patientId)

\* createMedicalRecord that reads the counter without advancing it.
CreateMedicalRecordNoIncrement(insertRecord) ==
    LET id == medicalRecordIdCounter
        record == Spread(insertRecord, [id |-> id])
    IN  [result |-> record,
         store |-> MapSet(medicalRecordsStore, id, record),
         counter |-> medicalRecordIdCounter]

CreateMedicalRecord(insertRecord) ==
    LET id == medicalRecordIdCounter
        record == Spread(insertRecord, [id |-> id])
    IN  [result |-> record,
         store |-> MapSet(medicalRecordsStore, id, record),
         counter |-> medicalRecordIdCounter + 1]

----------------------------------------------------------------------------
(* MemStorage: WhatsApp template operations.                               *)

GetWhatsappTemplate(id) == MapGet(whatsappTemplatesStore, id)

GetWhatsappTemplatesByUserId(userId) ==
    SelectSeq(MapValues(whatsappTemplatesStore),
           LAMBDA template : template.userId = userId)

\* createWhatsappTemplate that reads the counter without advancing it.
CreateWhatsappTemplateNoIncrement(insertTemplate) ==
    LET id == whatsappTemplateIdCounter
        template == Spread(insertTemplate, [id |-> id])
    IN  [result |-> template,
         store |-> MapSet(whatsappTemplatesStore, id, template),
         counter |-> whatsappTemplateIdCounter]

CreateWhatsappTemplate(insertTemplate) ==
    LET id == whatsappTemplateIdCounter
        template == Spread(insertTemplate, [id |-> id])
    IN  [result |-> template,
         store |-> MapSet(whatsappTemplatesStore, id, template),
         counter |-> whatsappTemplateIdCounter + 1]

UpdateWhatsappTemplate(id, updates) ==
    LET template == GetWhatsappTemplate(id)
        updatedTemplate == Spread(template, updates)
    IN  IF template = Undefined
        THEN [result |-> Undefined, store |-> whatsappTemplatesStore]
        ELSE [result |-> updatedTemplate,
              store |-> MapSet(whatsappTemplatesStore, id, updatedTemplate)]

----------------------------------------------------------------------------
(* Responses.  A response carries the route and client it answers, the     *)
(* user the session named when the request came in, the id the request     *)
(* targeted (its :id or :patientId parameter, or the patientId of its      *)
(* body, if it has one), the HTTP status, the failure kind, the records    *)
(* of its body and the storage methods the handler called.                 *)

Anonymous == 0

Reply(status, error, body, calls) ==
    [status |-> status, error |-> error, body |-> body, calls |-> calls]

\* The id a request targets, for the response that answers it.
NoTarget == <<>>
Target(id) == <<id>>

Send(route, c, target, o) ==
    resp' = [route |-> route, client |-> c, caller |-> session[c], target |-> target,
             status |-> o.status, error |-> o.error, body |-> o.body,
             calls |-> o.calls]

----------------------------------------------------------------------------
(* Authentication gate: register, login, logout and the session.           *)

\* Strings of the registration and login forms, as character codes:
\* "ana", "Ana", "bia" and "a@x", "A@X", "b@x".
Usernames == {<<97, 110, 97>>, <<65, 110, 97>>, <<98, 105, 97>>}
Emails == {<<97, 64, 120>>, <<65, 64, 88>>, <<98, 64, 120>>}
Passwords == {"pw1", "pw2"}

\* req.isAuthenticated()
IsAuthenticated(c) == session[c] # Anonymous

\* req.user: the stored user the session names.
ReqUser(c) == IF session[c] = Anonymous THEN Undefined ELSE GetUser(session[c])

\* The credential check of login.
VerifyPassword(supplied, stored) == supplied = stored

\* register: the reply, and the users store, counter and session after it.
RegisterOutcome(c, username, email, password) ==
    LET created == CreateUser([username |-> username, email |-> email,
                               password |-> password])
    IN  IF GetUserByUsername(username) # Undefined \/ GetUserByEmail(email) # Undefined
        THEN [reply |-> Reply(400, "DuplicateIdentity", <<>>,
                              {"getUserByUsername", "getUserByEmail"}),
              store |-> usersStore, counter |-> userIdCounter, session |-> session]
        ELSE [reply |-> Reply(201, "", <<created.result>>,
                              {"getUserByUsername", "getUserByEmail", "createUser"}),
              store |-> created.store, counter |-> created.counter,
              session |-> [session EXCEPT ![c] = created.result.id]]

\* login: the reply and the session after it.
LoginOutcome(c, email, password) ==
    LET user == GetUserByEmail(email)
    IN  IF user = Undefined \/ ~VerifyPassword(password, user.password)
        THEN [reply |-> Reply(401, "InvalidCredentials", <<>>, {"getUserByEmail"}),
              session |-> session]
        ELSE [reply |-> Reply(200, "", <<user>>, {"getUserByEmail"}),
              session |-> [session EXCEPT ![c] = user.id]]

\* loginMutation whose onError also clears the cached user, as logout's onSuccess does.
LoginMutationClearsCache(reply, cache) ==
    IF reply.status >= 200 /\ reply.status <= 299
    THEN [cache |-> reply.body[1],
          toast |-> [title |-> "Login realizado", variant |-> "default"]]
    ELSE [cache |-> Null,
          toast |-> [title |-> "Falha no login",
                     description |-> "Email ou senha incorretos",
                     variant |-> "destructive"]]

\* The client's loginMutation once the request has settled: apiRequest rejects on
\* a status that is not 2xx; onSuccess caches the user, onError shows one fixed
\* toast and leaves the cache alone.
LoginMutation(reply, cache) ==
    IF reply.status >= 200 /\ reply.status <= 299
    THEN [cache |-> reply.body[1],
          toast |-> [title |-> "Login realizado", variant |-> "default"]]
    ELSE [cache |-> cache,
          toast |-> [title |-> "Falha no login",
                     description |-> "Email ou senha incorretos",
                     variant |-> "destructive"]]

\* registerMutation whose onError also clears the cached user.
RegisterMutationClearsCache(reply, cache) ==
    IF reply.status >= 200 /\ reply.status <= 299
    THEN [cache |-> reply.body[1],
          toast |-> [title |-> "Conta criada com sucesso", variant |-> "default"]]
    ELSE [cache |-> Null,
          toast |-> [title |-> "Falha no cadastro", description |-> reply.error,
                     variant |-> "destructive"]]

\* The client's registerMutation once the request has settled: onSuccess caches
\* the user, onError shows the error's message and leaves the cache alone.
RegisterMutation(reply, cache) ==
    IF reply.status >= 200 /\ reply.status <= 299
    THEN [cache |-> reply.body[1],
          toast |-> [title |-> "Conta criada com sucesso", variant |-> "default"]]
    ELSE [cache |-> cache,
          toast |-> [title |-> "Falha no cadastro", description |-> reply.error,
                     variant |-> "destructive"]]

\* logoutMutation whose onSuccess only shows the toast.
LogoutMutationKeepsCache(reply, cache) ==
    IF reply.status >= 200 /\ reply.status <= 299
    THEN [cache |-> cache,
          toast |-> [title |-> "Logout realizado", variant |-> "default"]]
    ELSE [cache |-> cache,
          toast |-> [title |-> "Falha ao desconectar", description |-> reply.error,
                     variant |-> "destructive"]]

\* The client's logoutMutation once the request has settled: onSuccess sets the
\* cached user to null, onError leaves it alone.
LogoutMutation(reply, cache) ==
    IF reply.status >= 200 /\ reply.status <= 299
    THEN [cache |-> Null,
          toast |-> [title |-> "Logout realizado", variant |-> "default"]]
    ELSE [cache |-> cache,
          toast |-> [title |-> "Falha ao desconectar", description |-> reply.error,
                     variant |-> "destructive"]]

\* The value of the client's ["/api/user"] query when it mirrors the session:
\* the stored user of the session, null for an anonymous one (on401: returnNull).
CachedUser(c) == IF session[c] = Anonymous THEN Null ELSE GetUser(session[c])

Register(c, username, email, password) ==
    LET o == RegisterOutcome(c, username, email, password)
    IN  /\ o.reply.status = 201 => userIdCounter <= MaxUsers
        /\ usersStore' = o.store
        /\ userIdCounter' = o.counter
        /\ session' = o.session
        /\ Send("POST /api/register", c, NoTarget, o.reply)
        /\ queryData' = [queryData EXCEPT ![c] = RegisterMutation(o.reply, @).cache]
        /\ UNCHANGED <<patientVars, appointmentVars, medicalRecordVars, templateVars, inflight>>

Login(c, email, password) ==
    LET o == LoginOutcome(c, email, password)
    IN  /\ session' = o.session
        /\ Send("POST /api/login", c, NoTarget, o.reply)
        /\ queryData' = [queryData EXCEPT ![c] = LoginMutation(o.reply, @).cache]
        /\ UNCHANGED <<stores, counters, inflight>>

Logout(c) ==
    /\ session' = [session EXCEPT ![c] = Anonymous]
    /\ Send("POST /api/logout", c, NoTarget, Reply(200, "", <<>>, {}))
    /\ queryData' = [queryData EXCEPT ![c] = LogoutMutation(Reply(200, "", <<>>, {}), @).cache]
    /\ UNCHANGED <<stores, counters, inflight>>

\* A logout request that fails: the session stays, and apiRequest rejects.
LogoutFailed(c) ==
    LET reply == Reply(500, "Unexpected", <<>>, {})
    IN  /\ Send("POST /api/logout", c, NoTarget, reply)
        /\ queryData' = [queryData EXCEPT ![c] = LogoutMutation(reply, @).cache]
        /\ UNCHANGED <<stores, counters, session, inflight>>

----------------------------------------------------------------------------
(* Request bodies and the zod insert schemas.  A body maps each key it     *)
(* carries to a JSON value, written <<type, value>>.  Of each table the    *)
(* model keeps the owner and parent columns, one required text column and  *)
(* one optional text column; the other columns are validated and stored    *)
(* the same way.                                                           *)

Str(s) == <<"string", s>>
Num(n) == <<"number", n>>

Column(type, required) == [type |-> type, required |-> required]

\* createInsertSchema(table).omit({ id: true })
InsertPatientSchema ==
    [name |-> Column("string", TRUE), status |-> Column("string", FALSE),
     userId |-> Column("number", TRUE)]

InsertAppointmentSchema ==
    [patientId |-> Column("number", TRUE), userId |-> Column("number", TRUE),
     date |-> Column("string", TRUE), status |-> Column("string", FALSE)]

InsertMedicalRecordSchema ==
    [patientId |-> Column("number", TRUE), userId |-> Column("number", TRUE),
     content |-> Column("string", TRUE)]

InsertWhatsappTemplateSchema ==
    [userId |-> Column("number", TRUE), name |-> Column("string", TRUE),
     status |-> Column("string", FALSE)]

\* schema.partial(): every column optional.
Partial(schema) == [f \in DOMAIN schema |-> Column(schema[f].type, FALSE)]

\* schema.passthrough().parse(input): the keys the schema does not know are kept.
ParsePassthrough(schema, input) ==
    LET issues == {f \in DOMAIN schema :
                      \/ schema[f].required /\ f \notin DOMAIN input
                      \/ f \in DOMAIN input /\ input[f][1] # schema[f].type}
    IN  [ok |-> issues = {},
         data |-> [f \in DOMAIN input |-> input[f][2]]]

\* schema.parse(input): fails (ZodError) on a missing required key or a value of
\* the wrong type; otherwise yields the schema's keys of the input, unknown keys
\* stripped.
Parse(schema, input) ==
    LET issues == {f \in DOMAIN schema :
                      \/ schema[f].required /\ f \notin DOMAIN input
                      \/ f \in DOMAIN input /\ input[f][1] # schema[f].type}
    IN  [ok |-> issues = {},
         data |-> [f \in (DOMAIN schema) \cap (DOMAIN input) |-> input[f][2]]]

----------------------------------------------------------------------------
(* Route layer.  The outcome of a handler is its reply together with the   *)
(* store and id counter of the collection it writes, as they are after it. *)

\* The patient a body names, if it names one.
BodyPatientId(body) ==
    IF "patientId" \in DOMAIN body /\ body.patientId[1] = "number"
    THEN Target(body.patientId[2]) ELSE NoTarget

Outcome(reply, store, counter) == [reply |-> reply, store |-> store, counter |-> counter]

\* The requireAuth middleware in front of a handler whose outcome is o.
\* requireAuth that calls next() without looking at the session.
RequireAuthSkipped(c, o, store, counter) == o

RequireAuth(c, o, store, counter) ==
    IF ~IsAuthenticated(c)
    THEN Outcome(Reply(401, "Unauthorized", <<>>, {}), store, counter)
    ELSE o

\* The catch block of a handler for an error that is no ZodError.
Unexpected(store, counter) ==
    Outcome(Reply(500, "Unexpected", <<>>, {}), store, counter)

\* ---- patients

GetPatientsOutcome(c) ==
    LET user == ReqUser(c)
    IN  IF user = Undefined THEN Unexpected(patientsStore, patientIdCounter)
        ELSE Outcome(Reply(200, "", GetPatientsByUserId(user.id), {"getPatientsByUserId"}),
                     patientsStore, patientIdCounter)

GetPatientByIdOutcome(c, id) ==
    LET user == ReqUser(c)
        patient == GetPatient(id)
    IN  IF patient = Undefined
        THEN Outcome(Reply(404, "NotFound", <<>>, {"getPatient"}),
                     patientsStore, patientIdCounter)
        ELSE IF user = Undefined THEN Unexpected(patientsStore, patientIdCounter)
        ELSE IF patient.userId # user.id
        THEN Outcome(Reply(403, "Forbidden", <<>>, {"getPatient"}),
                     patientsStore, patientIdCounter)
        ELSE Outcome(Reply(200, "", <<patient>>, {"getPatient"}),
                     patientsStore, patientIdCounter)

\* POST /api/patients with the spread reversed: { userId: req.user.id, ...req.body }.
PostPatientsOutcomeBodyWins(c, body) ==
    LET user == ReqUser(c)
        validatedData == Parse(InsertPatientSchema,
                               Spread([userId |-> Num(user.id)], body))
        created == CreatePatient(validatedData.data)
    IN  IF user = Undefined THEN Unexpected(patientsStore, patientIdCounter)
        ELSE IF ~validatedData.ok
        THEN Outcome(Reply(400, "ValidationFailed", <<>>, {}),
                     patientsStore, patientIdCounter)
        ELSE Outcome(Reply(201, "", <<created.result>>, {"createPatient"}),
                     created.store, created.counter)

PostPatientsOutcome(c, body) ==
    LET user == ReqUser(c)
        validatedData == Parse(InsertPatientSchema,
                               Spread(body, [userId |-> Num(user.id)]))
        created == CreatePatient(validatedData.data)
    IN  IF user = Undefined THEN Unexpected(patientsStore, patientIdCounter)
        ELSE IF ~validatedData.ok
        THEN Outcome(Reply(400, "ValidationFailed", <<>>, {}),
                     patientsStore, patientIdCounter)
        ELSE Outcome(Reply(201, "", <<created.result>>, {"createPatient"}),
                     created.store, created.counter)

\* PUT /api/patients/:id with the spread reversed: { userId: req.user.id, ...req.body }.
PutPatientOutcomeBodyWins(c, id, body) ==
    LET user == ReqUser(c)
        patient == GetPatient(id)
        validatedData == Parse(Partial(InsertPatientSchema),
                               Spread([userId |-> Num(user.id)], body))
        updated == UpdatePatient(id, validatedData.data)
    IN  IF patient = Undefined
        THEN Outcome(Reply(404, "NotFound", <<>>, {"getPatient"}),
                     patientsStore, patientIdCounter)
        ELSE IF user = Undefined THEN Unexpected(patientsStore, patientIdCounter)
        ELSE IF patient.userId # user.id
        THEN Outcome(Reply(403, "Forbidden", <<>>, {"getPatient"}),
                     patientsStore, patientIdCounter)
        ELSE IF ~validatedData.ok
        THEN Outcome(Reply(400, "ValidationFailed", <<>>, {"getPatient"}),
                     patientsStore, patientIdCounter)
        ELSE Outcome(Reply(200, "", <<updated.result>>, {"getPatient", "updatePatient"}),
                     updated.store, patientIdCounter)

PutPatientOutcome(c, id, body) ==
    LET user == ReqUser(c)
        patient == GetPatient(id)
        validatedData == Parse(Partial(InsertPatientSchema),
                               Spread(body, [userId |-> Num(user.id)]))
        updated == UpdatePatient(id, validatedData.data)
    IN  IF patient = Undefined
        THEN Outcome(Reply(404, "NotFound", <<>>, {"getPatient"}),
                     patientsStore, patientIdCounter)
        ELSE IF user = Undefined THEN Unexpected(patientsStore, patientIdCounter)
        ELSE IF patient.userId # user.id
        THEN Outcome(Reply(403, "Forbidden", <<>>, {"getPatient"}),
                     patientsStore, patientIdCounter)
        ELSE IF ~validatedData.ok
        THEN Outcome(Reply(400, "ValidationFailed", <<>>, {"getPatient"}),
                     patientsStore, patientIdCounter)
        ELSE Outcome(Reply(200, "", <<updated.result>>, {"getPatient", "updatePatient"}),
                     updated.store, patientIdCounter)

Patients(route, c, target, o) ==
    LET out == RequireAuth(c, o, patientsStore, patientIdCounter)
    IN  /\ out.reply.status = 201 => patientIdCounter <= MaxPatients
        /\ patientsStore' = out.store
        /\ patientIdCounter' = out.counter
        /\ Send(route, c, target, out.reply)
        /\ UNCHANGED <<userVars, appointmentVars, medicalRecordVars, templateVars, session, inflight, queryData>>

GetPatients(c) == Patients("GET /api/patients", c, NoTarget, GetPatientsOutcome(c))
GetPatientById(c, id) == Patients("GET /api/patients/:id", c, Target(id), GetPatientByIdOutcome(c, id))
PostPatients(c, body) == Patients("POST /api/patients", c, NoTarget, PostPatientsOutcome(c, body))
PutPatient(c, id, body) == Patients("PUT /api/patients/:id", c, Target(id), PutPatientOutcome(c, id, body))

\* ---- appointments

GetAppointmentsOutcome(c) ==
    LET user == ReqUser(c)
    IN  IF user = Undefined THEN Unexpected(appointmentsStore, appointmentIdCounter)
        ELSE Outcome(Reply(200, "", GetAppointmentsByUserId(user.id),
                           {"getAppointmentsByUserId"}),
                     appointmentsStore, appointmentIdCounter)

\* toISOString throws a RangeError on an Invalid Date.
GetAppointmentsForDateOutcome(c, dateParam) ==
    LET user == ReqUser(c)
        date == NewDate(dateParam)
    IN  IF user = Undefined \/ ~date.valid
        THEN Unexpected(appointmentsStore, appointmentIdCounter)
        ELSE Outcome(Reply(200, "", GetAppointmentsForDate(user.id, date),
                           {"getAppointmentsForDate"}),
                     appointmentsStore, appointmentIdCounter)

GetAppointmentsByPatientOutcome(c, patientId) ==
    LET user == ReqUser(c)
        patient == GetPatient(patientId)
    IN  IF patient = Undefined
        THEN Outcome(Reply(403, "Forbidden", <<>>, {"getPatient"}),
                     appointmentsStore, appointmentIdCounter)
        ELSE IF user = Undefined THEN Unexpected(appointmentsStore, appointmentIdCounter)
        ELSE IF patient.userId # user.id
        THEN Outcome(Reply(403, "Forbidden", <<>>, {"getPatient"}),
                     appointmentsStore, appointmentIdCounter)
        ELSE Outcome(Reply(200, "", GetAppointmentsByPatientId(patientId),
                           {"getPatient", "getAppointmentsByPatientId"}),
                     appointmentsStore, appointmentIdCounter)

\* POST /api/appointments that checks only that the patient exists.
PostAppointmentsOutcomeAnyOwner(c, body) ==
    LET user == ReqUser(c)
        validatedData == Parse(InsertAppointmentSchema,
                               Spread(body, [userId |-> Num(user.id)]))
        patient == GetPatient(validatedData.data.patientId)
        created == CreateAppointment(validatedData.data)
    IN  IF user = Undefined THEN Unexpected(appointmentsStore, appointmentIdCounter)
        ELSE IF ~validatedData.ok
        THEN Outcome(Reply(400, "ValidationFailed", <<>>, {}),
                     appointmentsStore, appointmentIdCounter)
        ELSE IF patient = Undefined
        THEN Outcome(Reply(403, "Forbidden", <<>>, {"getPatient"}),
                     appointmentsStore, appointmentIdCounter)
        ELSE Outcome(Reply(201, "", <<created.result>>, {"getPatient", "createAppointment"}),
                     created.store, created.counter)

\* POST /api/appointments that takes the next id before it checks the patient.
PostAppointmentsOutcomeTakesId(c, body) ==
    LET user == ReqUser(c)
        validatedData == Parse(InsertAppointmentSchema,
                               Spread(body, [userId |-> Num(user.id)]))
        patient == GetPatient(validatedData.data.patientId)
        created == CreateAppointment(validatedData.data)
    IN  IF user = Undefined THEN Unexpected(appointmentsStore, appointmentIdCounter)
        ELSE IF ~validatedData.ok
        THEN Outcome(Reply(400, "ValidationFailed", <<>>, {}),
                     appointmentsStore, appointmentIdCounter)
        ELSE IF patient = Undefined \/ patient.userId # user.id
        THEN Outcome(Reply(403, "Forbidden", <<>>, {"getPatient"}),
                     appointmentsStore, created.counter)
        ELSE Outcome(Reply(201, "", <<created.result>>, {"getPatient", "createAppointment"}),
                     created.store, created.counter)

PostAppointmentsOutcome(c, body) ==
    LET user == ReqUser(c)
        validatedData == Parse(InsertAppointmentSchema,
                               Spread(body, [userId |-> Num(user.id)]))
        patient == GetPatient(validatedData.data.patientId)
        created == CreateAppointment(validatedData.data)
    IN  IF user = Undefined THEN Unexpected(appointmentsStore, appointmentIdCounter)
        ELSE IF ~validatedData.ok
        THEN Outcome(Reply(400, "ValidationFailed", <<>>, {}),
                     appointmentsStore, appointmentIdCounter)
        ELSE IF patient = Undefined \/ patient.userId # user.id
        THEN Outcome(Reply(403, "Forbidden", <<>>, {"getPatient"}),
                     appointmentsStore, appointmentIdCounter)
        ELSE Outcome(Reply(201, "", <<created.result>>, {"getPatient", "createAppointment"}),
                     created.store, created.counter)

PutAppointmentOutcome(c, id, body) ==
    LET user == ReqUser(c)
        appointment == GetAppointment(id)
        validatedData == Parse(Partial(InsertAppointmentSchema),
                               Spread(body, [userId |-> Num(user.id)]))
        updated == UpdateAppointment(id, validatedData.data)
    IN  IF appointment = Undefined
        THEN Outcome(Reply(404, "NotFound", <<>>, {"getAppointment"}),
                     appointmentsStore, appointmentIdCounter)
        ELSE IF user = Undefined THEN Unexpected(appointmentsStore, appointmentIdCounter)
        ELSE IF appointment.userId # user.id
        THEN Outcome(Reply(403, "Forbidden", <<>>, {"getAppointment"}),
                     appointmentsStore, appointmentIdCounter)
        ELSE IF ~validatedData.ok
        THEN Outcome(Reply(400, "ValidationFailed", <<>>, {"getAppointment"}),
                     appointmentsStore, appointmentIdCounter)
        ELSE Outcome(Reply(200, "", <<updated.result>>,
                           {"getAppointment", "updateAppointment"}),
                     updated.store, appointmentIdCounter)

Appointments(route, c, target, o) ==
    LET out == RequireAuth(c, o, appointmentsStore, appointmentIdCounter)
    IN  /\ out.reply.status = 201 => appointmentIdCounter <= MaxAppointments
        /\ appointmentsStore' = out.store
        /\ appointmentIdCounter' = out.counter
        /\ Send(route, c, target, out.reply)
        /\ UNCHANGED <<userVars, patientVars, medicalRecordVars, templateVars, session, inflight, queryData>>

GetAppointments(c) == Appointments("GET /api/appointments", c, NoTarget, GetAppointmentsOutcome(c))
GetAppointmentsByDate(c, dateParam) ==
    Appointments("GET /api/appointments/date/:date", c, NoTarget,
                 GetAppointmentsForDateOutcome(c, dateParam))
GetAppointmentsByPatient(c, patientId) ==
    Appointments("GET /api/appointments/patient/:patientId", c, Target(patientId),
                 GetAppointmentsByPatientOutcome(c, patientId))
PostAppointments(c, body) ==
    Appointments("POST /api/appointments", c, BodyPatientId(body), PostAppointmentsOutcome(c, body))
PutAppointment(c, id, body) ==
    Appointments("PUT /api/appointments/:id", c, Target(id), PutAppointmentOutcome(c, id, body))

\* ---- medical records

GetMedicalRecordsByPatientOutcome(c, patientId) ==
    LET user == ReqUser(c)
        patient == GetPatient(patientId)
    IN  IF patient = Undefined
        THEN Outcome(Reply(403, "Forbidden", <<>>, {"getPatient"}),
                     medicalRecordsStore, medicalRecordIdCounter)
        ELSE IF user = Undefined
        THEN Unexpected(medicalRecordsStore, medicalRecordIdCounter)
        ELSE IF patient.userId # user.id
        THEN Outcome(Reply(403, "Forbidden", <<>>, {"getPatient"}),
                     medicalRecordsStore, medicalRecordIdCounter)
        ELSE Outcome(Reply(200, "", GetMedicalRecordsByPatientId(patientId),
                           {"getPatient", "getMedicalRecordsByPatientId"}),
                     medicalRecordsStore, medicalRecordIdCounter)

\* POST /api/medical-records that checks only that the patient exists.
PostMedicalRecordsOutcomeAnyOwner(c, body) ==
    LET user == ReqUser(c)
        validatedData == Parse(InsertMedicalRecordSchema,
                               Spread(body, [userId |-> Num(user.id)]))
        patient == GetPatient(validatedData.data.patientId)
        created == CreateMedicalRecord(validatedData.data)
    IN  IF user = Undefined THEN Unexpected(medicalRecordsStore, medicalRecordIdCounter)
        ELSE IF ~validatedData.ok
        THEN Outcome(Reply(400, "ValidationFailed", <<>>, {}),
                     medicalRecordsStore, medicalRecordIdCounter)
        ELSE IF patient = Undefined
        THEN Outcome(Reply(403, "Forbidden", <<>>, {"getPatient"}),
                     medicalRecordsStore, medicalRecordIdCounter)
        ELSE Outcome(Reply(201, "", <<created.result>>,
                           {"getPatient", "createMedicalRecord"}),
                     created.store, created.counter)

PostMedicalRecordsOutcome(c, body) ==
    LET user == ReqUser(c)
        validatedData == Parse(InsertMedicalRecordSchema,
                               Spread(body, [userId |-> Num(user.id)]))
        patient == GetPatient(validatedData.data.patientId)
        created == CreateMedicalRecord(validatedData.data)
    IN  IF user = Undefined THEN Unexpected(medicalRecordsStore, medicalRecordIdCounter)
        ELSE IF ~validatedData.ok
        THEN Outcome(Reply(400, "ValidationFailed", <<>>, {}),
                     medicalRecordsStore, medicalRecordIdCounter)
        ELSE IF patient = Undefined \/ patient.userId # user.id
        THEN Outcome(Reply(403, "Forbidden", <<>>, {"getPatient"}),
                     medicalRecordsStore, medicalRecordIdCounter)
        ELSE Outcome(Reply(201, "", <<created.result>>,
                           {"getPatient", "createMedicalRecord"}),
                     created.store, created.counter)

MedicalRecords(route, c, target, o) ==
    LET out == RequireAuth(c, o, medicalRecordsStore, medicalRecordIdCounter)
    IN  /\ out.reply.status = 201 => medicalRecordIdCounter <= MaxMedicalRecords
        /\ medicalRecordsStore' = out.store
        /\ medicalRecordIdCounter' = out.counter
        /\ Send(route, c, target, out.reply)
        /\ UNCHANGED <<userVars, patientVars, appointmentVars, templateVars, session, inflight, queryData>>

GetMedicalRecordsByPatient(c, patientId) ==
    MedicalRecords("GET /api/medical-records/patient/:patientId", c,
                   Target(patientId),
                   GetMedicalRecordsByPatientOutcome(c, patientId))
PostMedicalRecords(c, body) ==
    MedicalRecords("POST /api/medical-records", c, BodyPatientId(body),
                   PostMedicalRecordsOutcome(c, body))

\* ---- WhatsApp templates

GetWhatsappTemplatesOutcome(c) ==
    LET user == ReqUser(c)
    IN  IF user = Undefined
        THEN Unexpected(whatsappTemplatesStore, whatsappTemplateIdCounter)
        ELSE Outcome(Reply(200, "", GetWhatsappTemplatesByUserId(user.id),
                           {"getWhatsappTemplatesByUserId"}),
                     whatsappTemplatesStore, whatsappTemplateIdCounter)

PostWhatsappTemplatesOutcome(c, body) ==
    LET user == ReqUser(c)
        validatedData == Parse(InsertWhatsappTemplateSchema,
                               Spread(body, [userId |-> Num(user.id)]))
        created == CreateWhatsappTemplate(validatedData.data)
    IN  IF user = Undefined
        THEN Unexpected(whatsappTemplatesStore, whatsappTemplateIdCounter)
        ELSE IF ~validatedData.ok
        THEN Outcome(Reply(400, "ValidationFailed", <<>>, {}),
                     whatsappTemplatesStore, whatsappTemplateIdCounter)
        ELSE Outcome(Reply(201, "", <<created.result>>, {"createWhatsappTemplate"}),
                     created.store, created.counter)

PutWhatsappTemplateOutcome(c, id, body) ==
    LET user == ReqUser(c)
        template == GetWhatsappTemplate(id)
        validatedData == Parse(Partial(InsertWhatsappTemplateSchema),
                               Spread(body, [userId |-> Num(user.id)]))
        updated == UpdateWhatsappTemplate(id, validatedData.data)
    IN  IF template = Undefined
        THEN Outcome(Reply(404, "NotFound", <<>>, {"getWhatsappTemplate"}),
                     whatsappTemplatesStore, whatsappTemplateIdCounter)
        ELSE IF user = Undefined
        THEN Unexpected(whatsappTemplatesStore, whatsappTemplateIdCounter)
        ELSE IF template.userId # user.id
        THEN Outcome(Reply(403, "Forbidden", <<>>, {"getWhatsappTemplate"}),
                     whatsappTemplatesStore, whatsappTemplateIdCounter)
        ELSE IF ~validatedData.ok
        THEN Outcome(Reply(400, "ValidationFailed", <<>>, {"getWhatsappTemplate"}),
                     whatsappTemplatesStore, whatsappTemplateIdCounter)
        ELSE Outcome(Reply(200, "", <<updated.result>>,
                           {"getWhatsappTemplate", "updateWhatsappTemplate"}),
                     updated.store, whatsappTemplateIdCounter)

Templates(route, c, target, o) ==
    LET out == RequireAuth(c, o, whatsappTemplatesStore, whatsappTemplateIdCounter)
    IN  /\ out.reply.status = 201 => whatsappTemplateIdCounter <= MaxTemplates
        /\ whatsappTemplatesStore' = out.store
        /\ whatsappTemplateIdCounter' = out.counter
        /\ Send(route, c, target, out.reply)
        /\ UNCHANGED <<userVars, patientVars, appointmentVars, medicalRecordVars, session, inflight, queryData>>

GetWhatsappTemplates(c) ==
    Templates("GET /api/whatsapp-templates", c, NoTarget, GetWhatsappTemplatesOutcome(c))
PostWhatsappTemplates(c, body) ==
    Templates("POST /api/whatsapp-templates", c, NoTarget,
              PostWhatsappTemplatesOutcome(c, body))
PutWhatsappTemplate(c, id, body) ==
    Templates("PUT /api/whatsapp-templates/:id", c, Target(id),
              PutWhatsappTemplateOutcome(c, id, body))

----------------------------------------------------------------------------
(* Handlers between awaits.  An async function runs without interruption   *)
(* from one await to the next.  No storage method has an await of its own, *)
(* so it runs whole at the call; the handler that called it goes on in a   *)
(* later turn of the event loop, after the turns of other requests.        *)

Handlers == {"h1", "h2"}

\* A slot that runs no request.
Idle ==
    [pc |-> "idle", route |-> "none", client |-> "none", user |-> Undefined,
     target |-> NoTarget, body |-> <<>>, patient |-> Undefined, stored |-> Undefined,
     answers |-> 0,
     reply |-> Reply(0, "", <<>>, {})]

\* A request as it arrives: req.user is the user of the session at that moment.
Arrived(route, c, target, body) ==
    [Idle EXCEPT !.pc = "arrived", !.route = route, !.client = c,
                 !.user = ReqUser(c), !.target = target, !.body = body]

\* return res.status(..).json(..): the request is answered and the handler is over.
Answer(req, reply) ==
    [req EXCEPT !.pc = "done", !.answers = @ + 1, !.reply = reply]

\* const patient = await storage.getPatient(..): the call has returned value, and
\* the handler goes on in a later turn.
AwaitPatient(req, value) == [req EXCEPT !.pc = "getPatient", !.patient = value]

\* await of the create or update call pc, which has returned value.
AwaitStored(req, pc, value) == [req EXCEPT !.pc = pc, !.stored = value]

\* One turn of a handler: the request after it, and the store and id counter of
\* the collection the handler writes.
Turn(request, store, counter) ==
    [request |-> request, store |-> store, counter |-> counter]

\* requireAuth without the return: it answers 401 and calls next() as well.
RequireAuthThenNext(c, req, store, counter, started) ==
    IF ~IsAuthenticated(c)
    THEN [started EXCEPT !.request.answers = @ + 1,
                         !.request.reply = Reply(401, "Unauthorized", <<>>, {})]
    ELSE started

\* The requireAuth middleware in front of the first turn of a handler.
RequireAuthThen(c, req, store, counter, started) ==
    IF ~IsAuthenticated(c)
    THEN Turn(Answer(req, Reply(401, "Unauthorized", <<>>, {})), store, counter)
    ELSE started

\* The catch block of a handler for an error that is no ZodError.
Failed(req, store, counter) ==
    Turn(Answer(req, Reply(500, "Unexpected", <<>>, {})), store, counter)

\* ---- POST /api/patients

\* Up to await storage.createPatient(validatedData).
PostPatientsBegun(c, body) ==
    LET req == Arrived("POST /api/patients", c, NoTarget, body)
        user == req.user
        validatedData == Parse(InsertPatientSchema,
                               Spread(body, [userId |-> Num(user.id)]))
        created == CreatePatient(validatedData.data)
    IN  RequireAuthThen(c, req, patientsStore, patientIdCounter,
           IF user = Undefined THEN Failed(req, patientsStore, patientIdCounter)
           ELSE IF ~validatedData.ok
           THEN Turn(Answer(req, Reply(400, "ValidationFailed", <<>>, {})),
                     patientsStore, patientIdCounter)
           ELSE Turn(AwaitStored(req, "createPatient", created.result),
                     created.store, created.counter))

\* res.status(201).json(patient)
PostPatientsEnded(req) ==
    Turn(Answer(req, Reply(201, "", <<req.stored>>, {"createPatient"})),
         patientsStore, patientIdCounter)

\* ---- PUT /api/patients/:id

\* Up to await storage.getPatient(parseInt(req.params.id)).
PutPatientBegun(c, id, body) ==
    LET req == Arrived("PUT /api/patients/:id", c, Target(id), body)
    IN  RequireAuthThen(c, req, patientsStore, patientIdCounter,
           Turn(AwaitPatient(req, GetPatient(id)),
                patientsStore, patientIdCounter))

\* PUT /api/patients/:id that merges the updates onto the patient the handler
\* read before its checks: set(id, { ...patient, ...validatedData }).
PutPatientResumedOntoRead(req) ==
    LET user == req.user
        patient == req.patient
        id == req.target[1]
        validatedData == Parse(Partial(InsertPatientSchema),
                               Spread(req.body, [userId |-> Num(user.id)]))
        updatedPatient == Spread(patient, validatedData.data)
    IN  IF patient = Undefined
        THEN Turn(Answer(req, Reply(404, "NotFound", <<>>, {"getPatient"})),
                  patientsStore, patientIdCounter)
        ELSE IF user = Undefined THEN Failed(req, patientsStore, patientIdCounter)
        ELSE IF patient.userId # user.id
        THEN Turn(Answer(req, Reply(403, "Forbidden", <<>>, {"getPatient"})),
                  patientsStore, patientIdCounter)
        ELSE IF ~validatedData.ok
        THEN Turn(Answer(req, Reply(400, "ValidationFailed", <<>>, {"getPatient"})),
                  patientsStore, patientIdCounter)
        ELSE Turn(AwaitStored(req, "updatePatient", updatedPatient),
                  MapSet(patientsStore, id, updatedPatient), patientIdCounter)

\* From the patient that getPatient returned up to await storage.updatePatient(..),
\* which reads the patient again as it writes.
PutPatientResumed(req) ==
    LET user == req.user
        patient == req.patient
        validatedData == Parse(Partial(InsertPatientSchema),
                               Spread(req.body, [userId |-> Num(user.id)]))
        updated == UpdatePatient(req.target[1], validatedData.data)
    IN  IF patient = Undefined
        THEN Turn(Answer(req, Reply(404, "NotFound", <<>>, {"getPatient"})),
                  patientsStore, patientIdCounter)
        ELSE IF user = Undefined THEN Failed(req, patientsStore, patientIdCounter)
        ELSE IF patient.userId # user.id
        THEN Turn(Answer(req, Reply(403, "Forbidden", <<>>, {"getPatient"})),
                  patientsStore, patientIdCounter)
        ELSE IF ~validatedData.ok
        THEN Turn(Answer(req, Reply(400, "ValidationFailed", <<>>, {"getPatient"})),
                  patientsStore, patientIdCounter)
        ELSE Turn(AwaitStored(req, "updatePatient", updated.result),
                  updated.store, patientIdCounter)

\* res.json(updatedPatient)
PutPatientEnded(req) ==
    Turn(Answer(req, Reply(200, "", <<req.stored>>, {"getPatient", "updatePatient"})),
         patientsStore, patientIdCounter)

\* ---- POST /api/appointments

\* Up to await storage.getPatient(validatedData.patientId).
PostAppointmentsBegun(c, body) ==
    LET req == Arrived("POST /api/appointments", c, BodyPatientId(body), body)
        user == req.user
        validatedData == Parse(InsertAppointmentSchema,
                               Spread(body, [userId |-> Num(user.id)]))
    IN  RequireAuthThen(c, req, appointmentsStore, appointmentIdCounter,
           IF user = Undefined THEN Failed(req, appointmentsStore, appointmentIdCounter)
           ELSE IF ~validatedData.ok
           THEN Turn(Answer(req, Reply(400, "ValidationFailed", <<>>, {})),
                     appointmentsStore, appointmentIdCounter)
           ELSE Turn(AwaitPatient(req, GetPatient(validatedData.data.patientId)),
                     appointmentsStore, appointmentIdCounter))

\* From the patient that getPatient returned up to
\* await storage.createAppointment(validatedData).
PostAppointmentsResumed(req) ==
    LET user == req.user
        patient == req.patient
        validatedData == Parse(InsertAppointmentSchema,
                               Spread(req.body, [userId |-> Num(user.id)]))
        created == CreateAppointment(validatedData.data)
    IN  IF patient = Undefined \/ patient.userId # user.id
        THEN Turn(Answer(req, Reply(403, "Forbidden", <<>>, {"getPatient"})),
                  appointmentsStore, appointmentIdCounter)
        ELSE Turn(AwaitStored(req, "createAppointment", created.result),
                  created.store, created.counter)

\* res.status(201).json(appointment)
PostAppointmentsEnded(req) ==
    Turn(Answer(req, Reply(201, "", <<req.stored>>, {"getPatient", "createAppointment"})),
         appointmentsStore, appointmentIdCounter)

\* ---- POST /api/whatsapp-templates

\* Up to await storage.createWhatsappTemplate(validatedData).
PostWhatsappTemplatesBegun(c, body) ==
    LET req == Arrived("POST /api/whatsapp-templates", c, NoTarget, body)
        user == req.user
        validatedData == Parse(InsertWhatsappTemplateSchema,
                               Spread(body, [userId |-> Num(user.id)]))
        created == CreateWhatsappTemplate(validatedData.data)
    IN  RequireAuthThen(c, req, whatsappTemplatesStore, whatsappTemplateIdCounter,
           IF user = Undefined
           THEN Failed(req, whatsappTemplatesStore, whatsappTemplateIdCounter)
           ELSE IF ~validatedData.ok
           THEN Turn(Answer(req, Reply(400, "ValidationFailed", <<>>, {})),
                     whatsappTemplatesStore, whatsappTemplateIdCounter)
           ELSE Turn(AwaitStored(req, "createWhatsappTemplate", created.result),
                     created.store, created.counter))

\* res.status(201).json(template)
PostWhatsappTemplatesEnded(req) ==
    Turn(Answer(req, Reply(201, "", <<req.stored>>, {"createWhatsappTemplate"})),
         whatsappTemplatesStore, whatsappTemplateIdCounter)

\* ---- the turns as actions

\* The response of a request that has been answered.
Response(req) ==
    [route |-> req.route, client |-> req.client,
     caller |-> IF req.user = Undefined THEN Anonymous ELSE req.user.id,
     target |-> req.target, status |-> req.reply.status, error |-> req.reply.error,
     body |-> req.reply.body, calls |-> req.reply.calls]

\* What a slot keeps of the request of a turn: of an answered request, only that
\* it was answered, and how many times.
Kept(request) ==
    IF request.pc = "done" THEN [Idle EXCEPT !.pc = "done", !.answers = request.answers]
    ELSE [request EXCEPT !.reply = Idle.reply]

\* A slot takes a request when the one before it is over.
Free(h) == inflight[h].pc \in {"idle", "done"}

\* The slot h takes the request of a turn, and its answer, if the turn gave one,
\* is the response handled last.
Run(h, request) ==
    /\ inflight' = [inflight EXCEPT ![h] = Kept(request)]
    /\ resp' = IF request.reply # Idle.reply THEN Response(request) ELSE resp

At(h, route, pc) == inflight[h].route = route /\ inflight[h].pc = pc

PatientsTurn(h, out) ==
    /\ out.counter # patientIdCounter => patientIdCounter <= MaxPatients
    /\ patientsStore' = out.store
    /\ patientIdCounter' = out.counter
    /\ Run(h, out.request)
    /\ UNCHANGED <<userVars, appointmentVars, medicalRecordVars, templateVars, session, queryData>>

AppointmentsTurn(h, out) ==
    /\ out.counter # appointmentIdCounter => appointmentIdCounter <= MaxAppointments
    /\ appointmentsStore' = out.store
    /\ appointmentIdCounter' = out.counter
    /\ Run(h, out.request)
    /\ UNCHANGED <<userVars, patientVars, medicalRecordVars, templateVars, session, queryData>>

TemplatesTurn(h, out) ==
    /\ out.counter # whatsappTemplateIdCounter => whatsappTemplateIdCounter <= MaxTemplates
    /\ whatsappTemplatesStore' = out.store
    /\ whatsappTemplateIdCounter' = out.counter
    /\ Run(h, out.request)
    /\ UNCHANGED <<userVars, patientVars, appointmentVars, medicalRecordVars, session, queryData>>

BeginPostPatients(h, c, body) ==
    Free(h) /\ PatientsTurn(h, PostPatientsBegun(c, body))
EndPostPatients(h) ==
    /\ At(h, "POST /api/patients", "createPatient")
    /\ PatientsTurn(h, PostPatientsEnded(inflight[h]))

BeginPutPatient(h, c, id, body) ==
    Free(h) /\ PatientsTurn(h, PutPatientBegun(c, id, body))
ResumePutPatient(h) ==
    /\ At(h, "PUT /api/patients/:id", "getPatient")
    /\ PatientsTurn(h, PutPatientResumed(inflight[h]))
EndPutPatient(h) ==
    /\ At(h, "PUT /api/patients/:id", "updatePatient")
    /\ PatientsTurn(h, PutPatientEnded(inflight[h]))

BeginPostAppointments(h, c, body) ==
    Free(h) /\ AppointmentsTurn(h, PostAppointmentsBegun(c, body))
ResumePostAppointments(h) ==
    /\ At(h, "POST /api/appointments", "getPatient")
    /\ AppointmentsTurn(h, PostAppointmentsResumed(inflight[h]))
EndPostAppointments(h) ==
    /\ At(h, "POST /api/appointments", "createAppointment")
    /\ AppointmentsTurn(h, PostAppointmentsEnded(inflight[h]))

BeginPostWhatsappTemplates(h, c, body) ==
    Free(h) /\ TemplatesTurn(h, PostWhatsappTemplatesBegun(c, body))
EndPostWhatsappTemplates(h) ==
    /\ At(h, "POST /api/whatsapp-templates", "createWhatsappTemplate")
    /\ TemplatesTurn(h, PostWhatsappTemplatesEnded(inflight[h]))

Init ==
    /\ usersStore = <<>>
    /\ patientsStore = <<>>
    /\ appointmentsStore = <<>>
    /\ medicalRecordsStore = <<>>
    /\ whatsappTemplatesStore = <<>>
    /\ userIdCounter = 1
    /\ patientIdCounter = 1
    /\ appointmentIdCounter = 1
    /\ medicalRecordIdCounter = 1
    /\ whatsappTemplateIdCounter = 1
    /\ session = [c \in Clients |-> Anonymous]
    /\ inflight = [h \in Handlers |-> Idle]
    /\ queryData = [c \in Clients |-> Null]
    /\ resp = [route |-> "none", client |-> "none", caller |-> Anonymous,
               target |-> NoTarget, status |-> 0,
               error |-> "", body |-> <<>>, calls |-> {}]


----------------------------------------------------------------------------
(* Inputs.                                                                 *)

EmptyBody == <<>>

\* The two practitioners of the route-layer specifications, "ana" and "bia".
PractitionerForms ==
    {[username |-> <<97, 110, 97>>, email |-> <<97, 64, 120>>, password |-> "pw1"],
     [username |-> <<98, 105, 97>>, email |-> <<98, 64, 120>>, password |-> "pw1"]}

\* The route-layer specifications send every request from one client, which logs
\* in as either practitioner; SpecAuth drives both clients.
Browser == "c1"

IdParams(max) == 1 .. (max + 1)

\* A key the schemas do not know (id), an ill-typed value, a foreign userId.
PatientCreateBodies ==
    {EmptyBody,
     [name |-> Str("n1")],
     [name |-> Num(7)],
     [name |-> Str("n1"), userId |-> Num(1)],
     [name |-> Str("n1"), userId |-> Num(2), id |-> Num(7)]}

PatientUpdateBodies ==
    {EmptyBody,
     [name |-> Str("n2"), userId |-> Num(1), id |-> Num(7)],
     [status |-> Str("inactive"), userId |-> Num(2)],
     [status |-> Num(7)]}

AppointmentCreateBodies ==
    {[date |-> Str("2024-01-10")], [patientId |-> Str("1"), date |-> Str("2024-01-10")]}
    \cup {[patientId |-> Num(p), date |-> Str(d)] :
             p \in IdParams(MaxPatients), d \in {"2024-01-10", "2024-01-11"}}
    \cup {[patientId |-> Num(1), date |-> Str("2024-01-10"), userId |-> Num(u), id |-> Num(7)] :
             u \in 1 .. MaxUsers}

AppointmentUpdateBodies ==
    {EmptyBody, [date |-> Num(7)], [date |-> Str("2024-01-11"), userId |-> Num(1)],
     [patientId |-> Num(1), userId |-> Num(2), id |-> Num(7)]}
    \cup {[patientId |-> Num(p)] : p \in 2 .. MaxPatients}

DateParams == {"2024-01-10", "2024-01-11", "2024-01-10T22:00:00-03:00", "amanha"}

MedicalRecordCreateBodies ==
    {[content |-> Str("r1")], [patientId |-> Num(1), content |-> Num(7)]}
    \cup {[patientId |-> Num(p), content |-> Str("r1")] : p \in IdParams(MaxPatients)}
    \cup {[patientId |-> Num(1), content |-> Str("r1"), userId |-> Num(u), id |-> Num(7)] :
             u \in 1 .. MaxUsers}

TemplateCreateBodies ==
    {EmptyBody,
     [name |-> Str("t1")],
     [name |-> Num(7)],
     [name |-> Str("t1"), userId |-> Num(1)],
     [name |-> Str("t1"), userId |-> Num(2), id |-> Num(7)]}

TemplateUpdateBodies ==
    {EmptyBody,
     [name |-> Str("t2"), userId |-> Num(1), id |-> Num(7)],
     [status |-> Str("inactive"), userId |-> Num(2)],
     [status |-> Num(7)]}

\* The records the POST routes hand to the store: the validated bodies, with the
\* userId of either practitioner.
InsertPayloads(schema, bodies) ==
    {Parse(schema, Spread(body, [userId |-> Num(u)])).data :
        body \in {b \in bodies : Parse(schema, Spread(b, [userId |-> Num(1)])).ok},
        u \in 1 .. MaxUsers}

\* The updates the PUT routes hand to the store: the validated bodies.
Payloads(schema, bodies) ==
    {Parse(Partial(schema), body).data :
        body \in {b \in bodies : Parse(Partial(schema), b).ok}}

PatientPayloads == Payloads(InsertPatientSchema, PatientUpdateBodies)
AppointmentPayloads == Payloads(InsertAppointmentSchema, AppointmentUpdateBodies)
TemplatePayloads == Payloads(InsertWhatsappTemplateSchema, TemplateUpdateBodies)

----------------------------------------------------------------------------
(* Specifications.                                                         *)

\* The authentication gate alone, with every combination of the form fields.
AuthNext ==
    \/ \E c \in Clients, username \in Usernames, email \in Emails, password \in Passwords :
          Register(c, username, email, password)
    \/ \E c \in Clients, email \in Emails, password \in Passwords :
          Login(c, email, password)
    \/ \E c \in Clients : Logout(c)

SpecAuth == Init /\ [][AuthNext]_vars

\* The authentication gate as the client sees it, a failing logout included.
ClientNext ==
    \/ AuthNext
    \/ \E c \in Clients : LogoutFailed(c)

SpecClient == Init /\ [][ClientNext]_vars

\* The practitioners register, log in and log out.
PractitionerNext ==
    \/ \E f \in PractitionerForms : Register(Browser, f.username, f.email, f.password)
    \/ \E f \in PractitionerForms : Login(Browser, f.email, f.password)
    \/ Logout(Browser)

PatientNext ==
    \/ GetPatients(Browser)
    \/ \E id \in IdParams(MaxPatients) : GetPatientById(Browser, id)
    \/ \E body \in PatientCreateBodies : PostPatients(Browser, body)
    \/ \E id \in IdParams(MaxPatients), body \in PatientUpdateBodies :
          PutPatient(Browser, id, body)

AppointmentNext ==
    \/ GetAppointments(Browser)
    \/ \E d \in DateParams : GetAppointmentsByDate(Browser, d)
    \/ \E id \in IdParams(MaxPatients) : GetAppointmentsByPatient(Browser, id)
    \/ \E body \in AppointmentCreateBodies : PostAppointments(Browser, body)
    \/ \E id \in IdParams(MaxAppointments), body \in AppointmentUpdateBodies :
          PutAppointment(Browser, id, body)

MedicalRecordNext ==
    \/ \E id \in IdParams(MaxPatients) : GetMedicalRecordsByPatient(Browser, id)
    \/ \E body \in MedicalRecordCreateBodies : PostMedicalRecords(Browser, body)

TemplateNext ==
    \/ GetWhatsappTemplates(Browser)
    \/ \E body \in TemplateCreateBodies : PostWhatsappTemplates(Browser, body)
    \/ \E id \in IdParams(MaxTemplates), body \in TemplateUpdateBodies :
          PutWhatsappTemplate(Browser, id, body)

\* Patients are created but not edited where another collection is under study.
PatientSetup == \E body \in PatientCreateBodies : PostPatients(Browser, body)

SpecPatients == Init /\ [][PractitionerNext \/ PatientNext]_vars
SpecAppointments == Init /\ [][PractitionerNext \/ PatientSetup \/ AppointmentNext]_vars
SpecMedicalRecords == Init /\ [][PractitionerNext \/ PatientNext \/ MedicalRecordNext]_vars
SpecTemplates == Init /\ [][PractitionerNext \/ TemplateNext]_vars

\* All routes together.
Records == Len(patientsStore) + Len(appointmentsStore) + Len(medicalRecordsStore)
           + Len(whatsappTemplatesStore)

Capped(A) == A /\ Records' <= MaxRecords

Next ==
    \/ PractitionerNext
    \/ GetPatients(Browser)
    \/ \E id \in IdParams(MaxPatients) : GetPatientById(Browser, id)
    \/ \E body \in PatientCreateBodies : Capped(PostPatients(Browser, body))
    \/ \E id \in IdParams(MaxPatients), body \in PatientUpdateBodies :
          PutPatient(Browser, id, body)
    \/ GetAppointments(Browser)
    \/ \E d \in DateParams : GetAppointmentsByDate(Browser, d)
    \/ \E id \in IdParams(MaxPatients) : GetAppointmentsByPatient(Browser, id)
    \/ \E body \in AppointmentCreateBodies : Capped(PostAppointments(Browser, body))
    \/ \E id \in IdParams(MaxAppointments), body \in AppointmentUpdateBodies :
          PutAppointment(Browser, id, body)
    \/ \E id \in IdParams(MaxPatients) : GetMedicalRecordsByPatient(Browser, id)
    \/ \E body \in MedicalRecordCreateBodies : Capped(PostMedicalRecords(Browser, body))
    \/ GetWhatsappTemplates(Browser)
    \/ \E body \in TemplateCreateBodies : Capped(PostWhatsappTemplates(Browser, body))
    \/ \E id \in IdParams(MaxTemplates), body \in TemplateUpdateBodies :
          PutWhatsappTemplate(Browser, id, body)

Spec == Init /\ [][Next]_vars

\* The routes that write the three collections that have an update, together.
UpdateNext ==
    \/ PractitionerNext
    \/ \E body \in PatientCreateBodies : Capped(PostPatients(Browser, body))
    \/ \E id \in IdParams(MaxPatients), body \in PatientUpdateBodies :
          PutPatient(Browser, id, body)
    \/ \E body \in AppointmentCreateBodies : Capped(PostAppointments(Browser, body))
    \/ \E id \in IdParams(MaxAppointments), body \in AppointmentUpdateBodies :
          PutAppointment(Browser, id, body)
    \/ \E body \in TemplateCreateBodies : Capped(PostWhatsappTemplates(Browser, body))
    \/ \E id \in IdParams(MaxTemplates), body \in TemplateUpdateBodies :
          PutWhatsappTemplate(Browser, id, body)

SpecUpdates == Init /\ [][UpdateNext]_vars

\* The routes that insert into a collection, the routes that list one and, for
\* the collection with two listings, the route that updates it.
ListingNext ==
    \/ PractitionerNext
    \/ \E body \in PatientCreateBodies :
          PostPatients(Browser, body) /\ Records' <= MaxListed
    \/ \E body \in AppointmentCreateBodies :
          PostAppointments(Browser, body) /\ Records' <= MaxListed
    \/ \E id \in IdParams(MaxAppointments), body \in AppointmentUpdateBodies :
          PutAppointment(Browser, id, body)
    \/ \E body \in MedicalRecordCreateBodies :
          PostMedicalRecords(Browser, body) /\ Records' <= MaxListed
    \/ \E body \in TemplateCreateBodies :
          PostWhatsappTemplates(Browser, body) /\ Records' <= MaxListed
    \/ GetPatients(Browser)
    \/ GetAppointments(Browser)
    \/ \E id \in IdParams(MaxPatients) : GetAppointmentsByPatient(Browser, id)
    \/ \E id \in IdParams(MaxPatients) : GetMedicalRecordsByPatient(Browser, id)
    \/ GetWhatsappTemplates(Browser)

SpecListings == Init /\ [][ListingNext]_vars

\* Two requests at a time, each taking its turns between the turns of the other.
\* The practitioners register and log out.
ConcurrentPractitionerNext ==
    \/ \E f \in PractitionerForms : Register(Browser, f.username, f.email, f.password)
    \/ Logout(Browser)

ConcurrentPatientBodies ==
    {[name |-> Str("n1")], [name |-> Num(7)]}

ConcurrentUpdateBodies ==
    {[name |-> Str("n2")], [status |-> Str("inactive")], [status |-> Num(7)]}

ConcurrentAppointmentBodies ==
    {[date |-> Str("2024-01-10")]}
    \cup {[patientId |-> Num(p), date |-> Str("2024-01-10")] : p \in IdParams(MaxUpdated)}

ConcurrentTemplateBodies == {[name |-> Str("t1")]}

\* Concurrent creates and updates of patients.
ConcurrentUpdateNext ==
    \/ ConcurrentPractitionerNext
    \/ \E h \in Handlers, body \in ConcurrentPatientBodies :
          BeginPostPatients(h, Browser, body) /\ Len(patientsStore') <= MaxUpdated
    \/ \E h \in Handlers : EndPostPatients(h)
    \/ \E h \in Handlers, id \in IdParams(MaxUpdated), body \in ConcurrentUpdateBodies :
          BeginPutPatient(h, Browser, id, body)
    \/ \E h \in Handlers : ResumePutPatient(h)
    \/ \E h \in Handlers : EndPutPatient(h)

SpecConcurrentUpdates == Init /\ [][ConcurrentUpdateNext]_vars

\* Concurrent creates of patients, appointments and WhatsApp templates.
ConcurrentCreateNext ==
    \/ ConcurrentPractitionerNext
    \/ \E h \in Handlers, body \in ConcurrentPatientBodies :
          BeginPostPatients(h, Browser, body) /\ Records' <= MaxCreated
    \/ \E h \in Handlers : EndPostPatients(h)
    \/ \E h \in Handlers, body \in ConcurrentAppointmentBodies :
          BeginPostAppointments(h, Browser, body)
    \/ \E h \in Handlers : ResumePostAppointments(h) /\ Records' <= MaxCreated
    \/ \E h \in Handlers : EndPostAppointments(h)
    \/ \E h \in Handlers, body \in ConcurrentTemplateBodies :
          BeginPostWhatsappTemplates(h, Browser, body) /\ Records' <= MaxCreated
    \/ \E h \in Handlers : EndPostWhatsappTemplates(h)

SpecConcurrentCreates == Init /\ [][ConcurrentCreateNext]_vars

\* The later turns of the request in slot h.
Advance(h) ==
    \/ ResumePutPatient(h)
    \/ EndPutPatient(h)
    \/ ResumePostAppointments(h)
    \/ EndPostAppointments(h)

RequestUpdateBodies == {[status |-> Str("inactive")], [status |-> Num(7)]}

RequestAppointmentBodies ==
    {[date |-> Str("2024-01-10")], [patientId |-> Num(1), date |-> Str("2024-01-10")]}

\* After a patient has been created, updates of it in one slot and creates of an
\* appointment in the other, a request of each at a time.
RequestNext ==
    \/ ConcurrentPractitionerNext
    \/ PostPatients(Browser, [name |-> Str("n1")]) /\ Len(patientsStore') <= MaxUpdated
    \/ \E id \in 1 .. MaxUpdated, body \in RequestUpdateBodies :
          BeginPutPatient("h1", Browser, id, body)
    \/ \E body \in RequestAppointmentBodies :
          /\ Len(appointmentsStore) < MaxUpdated
          /\ BeginPostAppointments("h2", Browser, body)
    \/ \E h \in Handlers : Advance(h)

\* The storage calls are promises that are already settled, and the event loop
\* resumes a handler that awaits one: a turn that can be taken is taken.
SpecRequests == Init /\ [][RequestNext]_vars /\ \A h \in Handlers : WF_vars(Advance(h))

----------------------------------------------------------------------------
(* Properties.                                                             *)

AuthRoutes == {"POST /api/register", "POST /api/login", "POST /api/logout"}

PatientRoutes ==
    {"GET /api/patients", "GET /api/patients/:id", "POST /api/patients",
     "PUT /api/patients/:id"}

AppointmentRoutes ==
    {"GET /api/appointments", "GET /api/appointments/date/:date",
     "GET /api/appointments/patient/:patientId", "POST /api/appointments",
     "PUT /api/appointments/:id"}

MedicalRecordRoutes ==
    {"GET /api/medical-records/patient/:patientId", "POST /api/medical-records"}

TemplateRoutes ==
    {"GET /api/whatsapp-templates", "POST /api/whatsapp-templates",
     "PUT /api/whatsapp-templates/:id"}

BusinessRoutes ==
    PatientRoutes \cup AppointmentRoutes \cup MedicalRecordRoutes \cup TemplateRoutes

Unauthorized(store, counter) ==
    Outcome(Reply(401, "Unauthorized", <<>>, {}), store, counter)

\* C1: cross-user isolation.  No response to a business request carries a
\* record whose userId is not the id of the user who made the request.
C1_CrossUserIsolation ==
    resp.route \in BusinessRoutes =>
        \A i \in DOMAIN resp.body : resp.body[i].userId = resp.caller

\* C2: appointment ownership.  Every stored appointment references an
\* existing patient, and its userId is that patient's userId.
C2_AppointmentOwnership ==
    \A i \in DOMAIN appointmentsStore :
        LET appointment == appointmentsStore[i].value
            patient == GetPatient(appointment.patientId)
        IN  patient # Undefined /\ patient.userId = appointment.userId

\* C3: the patient a successful POST /api/patients creates and returns is
\* owned by the session's user, whatever userId the request body carries: of
\* the response just sent, and of every body the session's user could send now.
C3_PatientOwnerIsSessionUser ==
    /\ (resp.route = "POST /api/patients" /\ resp.status = 201) =>
          /\ resp.body[1].userId = resp.caller
          /\ GetPatient(resp.body[1].id) = resp.body[1]
    /\ IsAuthenticated(Browser) =>
          \A body \in PatientCreateBodies :
              LET o == PostPatientsOutcome(Browser, body)
              IN  o.reply.status = 201 =>
                     /\ o.reply.body[1].userId = session[Browser]
                     /\ MapGet(o.store, o.reply.body[1].id) = o.reply.body[1]

\* User 2 has just created a patient, and a body that names user 1 as the owner
\* is among those the route accepts.
C3_Witness ==
    /\ resp.route = "POST /api/patients" /\ resp.status = 201 /\ resp.caller = 2
    /\ \E body \in PatientCreateBodies :
          /\ "userId" \in DOMAIN body /\ body.userId = Num(1)
          /\ PostPatientsOutcome(Browser, body).reply.status = 201

\* C4: a POST /api/appointments with a valid body whose patientId names a
\* patient of another user is answered 403 Forbidden and leaves the
\* appointments collection and its counter as they were.
C4_ForeignPatientForbidden ==
    /\ ( /\ resp.route = "POST /api/appointments"
         /\ resp.caller # Anonymous /\ resp.status # 400
         /\ GetPatient(resp.target[1]) # Undefined
         /\ GetPatient(resp.target[1]).userId # resp.caller )
       => resp.status = 403 /\ resp.error = "Forbidden" /\ resp.body = <<>>
    /\ IsAuthenticated(Browser) =>
          \A body \in AppointmentCreateBodies :
              LET patient == GetPatient(BodyPatientId(body)[1])
                  input == Spread(body, [userId |-> Num(session[Browser])])
                  o == PostAppointmentsOutcome(Browser, body)
              IN  ( /\ Parse(InsertAppointmentSchema, input).ok
                    /\ patient # Undefined
                    /\ patient.userId # session[Browser] )
                  => /\ o.reply.status = 403
                     /\ o.store = appointmentsStore
                     /\ o.counter = appointmentIdCounter

\* A practitioner has just been refused an appointment for another's patient.
C4_Witness ==
    /\ resp.route = "POST /api/appointments" /\ resp.status = 403
    /\ resp.caller # Anonymous
    /\ GetPatient(resp.target[1]) # Undefined
    /\ GetPatient(resp.target[1]).userId # resp.caller

\* C5: medical-record ownership.  POST /api/medical-records creates a record
\* only for an existing patient of the requester, and every stored record
\* references an existing patient whose userId is the record's userId.
C5_MedicalRecordOwnership ==
    /\ \A i \in DOMAIN medicalRecordsStore :
          LET record == medicalRecordsStore[i].value
              patient == GetPatient(record.patientId)
          IN  patient # Undefined /\ patient.userId = record.userId
    /\ IsAuthenticated(Browser) =>
          \A body \in MedicalRecordCreateBodies :
              LET patient == GetPatient(BodyPatientId(body)[1])
                  o == PostMedicalRecordsOutcome(Browser, body)
              IN  o.reply.status = 201 =>
                     patient # Undefined /\ patient.userId = session[Browser]

\* A record has just been created while both practitioners have patients.
C5_Witness ==
    /\ resp.route = "POST /api/medical-records" /\ resp.status = 201
    /\ Len(medicalRecordsStore) > 0
    /\ \E i, j \in DOMAIN patientsStore :
          patientsStore[i].value.userId # patientsStore[j].value.userId

\* C6: a request to a business endpoint made in the anonymous session state is
\* answered 401 Unauthorized, calls no storage method and leaves every
\* collection and counter as it was: of the response just sent, and of every
\* request an anonymous client could send now.
C6_AnonymousUnauthorized ==
    /\ (resp.route \in BusinessRoutes /\ resp.caller = Anonymous) =>
          /\ resp.status = 401 /\ resp.error = "Unauthorized"
          /\ resp.body = <<>> /\ resp.calls = {}
    /\ ~IsAuthenticated(Browser) =>
          LET c == Browser
              P(o) == RequireAuth(c, o, patientsStore, patientIdCounter)
                        = Unauthorized(patientsStore, patientIdCounter)
              A(o) == RequireAuth(c, o, appointmentsStore, appointmentIdCounter)
                        = Unauthorized(appointmentsStore, appointmentIdCounter)
              M(o) == RequireAuth(c, o, medicalRecordsStore, medicalRecordIdCounter)
                        = Unauthorized(medicalRecordsStore, medicalRecordIdCounter)
              T(o) == RequireAuth(c, o, whatsappTemplatesStore, whatsappTemplateIdCounter)
                        = Unauthorized(whatsappTemplatesStore, whatsappTemplateIdCounter)
          IN  /\ P(GetPatientsOutcome(c))
              /\ \A id \in IdParams(MaxPatients) : P(GetPatientByIdOutcome(c, id))
              /\ \A body \in PatientCreateBodies : P(PostPatientsOutcome(c, body))
              /\ \A id \in IdParams(MaxPatients), body \in PatientUpdateBodies :
                    P(PutPatientOutcome(c, id, body))
              /\ A(GetAppointmentsOutcome(c))
              /\ \A d \in DateParams : A(GetAppointmentsForDateOutcome(c, d))
              /\ \A id \in IdParams(MaxPatients) : A(GetAppointmentsByPatientOutcome(c, id))
              /\ \A body \in AppointmentCreateBodies : A(PostAppointmentsOutcome(c, body))
              /\ \A id \in IdParams(MaxAppointments), body \in AppointmentUpdateBodies :
                    A(PutAppointmentOutcome(c, id, body))
              /\ \A id \in IdParams(MaxPatients) : M(GetMedicalRecordsByPatientOutcome(c, id))
              /\ \A body \in MedicalRecordCreateBodies : M(PostMedicalRecordsOutcome(c, body))
              /\ T(GetWhatsappTemplatesOutcome(c))
              /\ \A body \in TemplateCreateBodies : T(PostWhatsappTemplatesOutcome(c, body))
              /\ \A id \in IdParams(MaxTemplates), body \in TemplateUpdateBodies :
                    T(PutWhatsappTemplateOutcome(c, id, body))

\* An anonymous client has just asked for a patient that is stored.
C6_Witness ==
    /\ resp.route = "GET /api/patients/:id" /\ resp.caller = Anonymous
    /\ resp.status = 401
    /\ GetPatient(resp.target[1]) # Undefined

\* C7: an authenticated request that targets an id is answered 404 NotFound
\* when the id is absent from the store and 403 Forbidden when the record is
\* there and is not the caller's; the id is that of a patient, an appointment
\* or a template, by route.
C7_NotFoundOrForbidden ==
    LET Decided(record) ==
            /\ record = Undefined => resp.status = 404
            /\ (record # Undefined /\ record.userId # resp.caller) => resp.status = 403
    IN  resp.caller # Anonymous =>
          /\ resp.route \in {"GET /api/patients/:id", "PUT /api/patients/:id",
                             "GET /api/appointments/patient/:patientId",
                             "GET /api/medical-records/patient/:patientId"}
                => Decided(GetPatient(resp.target[1]))
          /\ resp.route = "PUT /api/appointments/:id"
                => Decided(GetAppointment(resp.target[1]))
          /\ resp.route = "PUT /api/whatsapp-templates/:id"
                => Decided(GetWhatsappTemplate(resp.target[1]))

KnownUsername(username) ==
    \E i \in DOMAIN usersStore :
        ToLowerCase(usersStore[i].value.username) = ToLowerCase(username)

KnownEmail(email) ==
    \E i \in DOMAIN usersStore :
        ToLowerCase(usersStore[i].value.email) = ToLowerCase(email)

\* C8: register fails with DuplicateIdentity exactly when a stored user has
\* the username or the email up to letter case, and then creates no user and
\* leaves every session as it was; otherwise it appends exactly one user, the
\* one it returns, and binds the caller's session to that user's id.
C8_RegisterDuplicateIdentity ==
    /\ (resp.route = "POST /api/register" /\ resp.status = 201) =>
          /\ session[resp.client] = resp.body[1].id
          /\ GetUser(resp.body[1].id) = resp.body[1]
    /\ (resp.route = "POST /api/register" /\ resp.status # 201) =>
          /\ resp.error = "DuplicateIdentity" /\ session[resp.client] = resp.caller
    /\ \A c \in Clients, username \in Usernames, email \in Emails, password \in Passwords :
          LET o == RegisterOutcome(c, username, email, password)
              user == o.reply.body[1]
          IN  IF KnownUsername(username) \/ KnownEmail(email)
              THEN /\ o.reply.status = 400 /\ o.reply.error = "DuplicateIdentity"
                   /\ o.store = usersStore /\ o.counter = userIdCounter
                   /\ o.session = session
              ELSE /\ o.reply.status = 201
                   /\ user.username = username /\ user.email = email
                   /\ Len(o.store) = Len(usersStore) + 1
                   /\ SubSeq(o.store, 1, Len(usersStore)) = usersStore
                   /\ o.store[Len(o.store)].value = user
                   /\ o.session = [session EXCEPT ![c] = user.id]

\* A register has just failed for a logged-in client, in a state where a form
\* that differs from the stored user only by letter case is refused.
C8_Witness ==
    /\ resp.route = "POST /api/register" /\ resp.error = "DuplicateIdentity"
    /\ resp.caller # Anonymous /\ session[resp.client] = resp.caller
    /\ Len(usersStore) = 1
    /\ \E username \in Usernames, email \in Emails :
          /\ usersStore[1].value.username # username
          /\ usersStore[1].value.email # email
          /\ RegisterOutcome(resp.client, username, email, "pw1").reply.error
                = "DuplicateIdentity"

\* C9: no two stored users have usernames that are equal ignoring case, and
\* no two have emails that are equal ignoring case.
C9_UserIdentityUnique ==
    \A i, j \in DOMAIN usersStore :
        i # j =>
            /\ ToLowerCase(usersStore[i].value.username)
                  # ToLowerCase(usersStore[j].value.username)
            /\ ToLowerCase(usersStore[i].value.email)
                  # ToLowerCase(usersStore[j].value.email)

\* Two users are stored and a further registration has just been refused.
C9_Witness ==
    /\ Len(usersStore) = 2
    /\ resp.route = "POST /api/register" /\ resp.error = "DuplicateIdentity"

\* C10: a login with a known email and a wrong password and a login with an
\* unknown email have the same outcome: the same 401 InvalidCredentials reply,
\* the same toast in the client, and the sessions and the client's cached
\* current user (the stored user of the session, if any) as they were.
C10_LoginFailuresAlike ==
    /\ (resp.route = "POST /api/login" /\ resp.status # 200) =>
          /\ resp.status = 401 /\ resp.error = "InvalidCredentials"
          /\ resp.body = <<>> /\ session[resp.client] = resp.caller
    /\ \A c \in Clients, password \in Passwords, known \in Emails, unknown \in Emails :
          LET WrongFor(email) ==
                  \A i \in DOMAIN usersStore :
                      ToLowerCase(usersStore[i].value.email) = ToLowerCase(email)
                          => usersStore[i].value.password # password
              o1 == LoginOutcome(c, known, password)
              o2 == LoginOutcome(c, unknown, password)
              cache == ReqUser(c)
          IN  (KnownEmail(known) /\ WrongFor(known) /\ ~KnownEmail(unknown)) =>
                  /\ o1 = o2
                  /\ o1.reply.status = 401 /\ o1.reply.error = "InvalidCredentials"
                  /\ o1.reply.body = <<>>
                  /\ o1.session = session
                  /\ LoginMutation(o1.reply, cache) = LoginMutation(o2.reply, cache)
                  /\ LoginMutation(o1.reply, cache).cache = cache

\* A login has just failed for a client that stays logged in, while one email
\* of the form is stored and another is not.
C10_Witness ==
    /\ resp.route = "POST /api/login" /\ resp.status = 401
    /\ resp.caller # Anonymous /\ session[resp.client] = resp.caller
    /\ \E known \in Emails, unknown \in Emails :
          KnownEmail(known) /\ ~KnownEmail(unknown)

C12_IdAssignment ==
    /\ []  ( \A k \in 1 .. 5 :
                /\ \A i \in DOMAIN stores[k] :
                      stores[k][i].key = i /\ stores[k][i].value.id = i
                /\ counters[k] = Len(stores[k]) + 1 )
    /\ [][ \A k \in 1 .. 5 :
              LET before == stores[k]
                  after == stores'[k]
              IN  /\ counters'[k] >= counters[k]
                  /\ Len(after) # Len(before) =>
                        /\ after = Append(before, after[Len(after)])
                        /\ resp'.status = 201
                        /\ resp'.body = <<after[Len(after)].value>>
                        /\ resp'.body[1].id = counters[k]
                        /\ \A j \in (1 .. 5) \ {k} : counters'[j] = counters[j]
      ]_vars

\* The second patient has just been created, with id 2, after two users registered.
C12_Witness ==
    /\ resp.route = "POST /api/patients" /\ resp.status = 201
    /\ resp.body[1].id = 2 /\ patientIdCounter = 3
    /\ userIdCounter = 3

UpdateRoutes ==
    {"PUT /api/patients/:id", "PUT /api/appointments/:id",
     "PUT /api/whatsapp-templates/:id"}

\* record is old with exactly the fields of payload set to payload's values.
MergedOnto(old, payload, record) ==
    /\ DOMAIN record = (DOMAIN old) \cup (DOMAIN payload)
    /\ \A f \in DOMAIN payload : record[f] = payload[f]
    /\ \A f \in (DOMAIN old) \ (DOMAIN payload) : record[f] = old[f]

\* after is store with the value under id replaced by record, and nothing else.
OnlyReplaced(store, id, record, after) ==
    /\ Len(after) = Len(store)
    /\ \A i \in DOMAIN store :
          after[i] = IF store[i].key = id THEN [key |-> id, value |-> record]
                     ELSE store[i]

\* C13: an update of an existing record sets exactly the fields of the payload,
\* keeps every other field, keeps every other record and its own position, and
\* returns the record now stored under the id; a PUT that succeeds changes one
\* entry of its own collection and no other collection or counter.
C13_UpdateFrame ==
    /\ []  ( /\ \A id \in IdParams(MaxPatients), p \in PatientPayloads :
                  LET old == GetPatient(id)
                      u == UpdatePatient(id, p)
                  IN  old # Undefined =>
                         /\ MergedOnto(old, p, u.result)
                         /\ OnlyReplaced(patientsStore, id, u.result, u.store)
                         /\ MapGet(u.store, id) = u.result
             /\ \A id \in IdParams(MaxAppointments), p \in AppointmentPayloads :
                  LET old == GetAppointment(id)
                      u == UpdateAppointment(id, p)
                  IN  old # Undefined =>
                         /\ MergedOnto(old, p, u.result)
                         /\ OnlyReplaced(appointmentsStore, id, u.result, u.store)
                         /\ MapGet(u.store, id) = u.result
             /\ \A id \in IdParams(MaxTemplates), p \in TemplatePayloads :
                  LET old == GetWhatsappTemplate(id)
                      u == UpdateWhatsappTemplate(id, p)
                  IN  old # Undefined =>
                         /\ MergedOnto(old, p, u.result)
                         /\ OnlyReplaced(whatsappTemplatesStore, id, u.result, u.store)
                         /\ MapGet(u.store, id) = u.result )
    /\ [][ (resp'.route \in UpdateRoutes /\ resp'.status = 200) =>
              /\ counters' = counters /\ usersStore' = usersStore
              /\ medicalRecordsStore' = medicalRecordsStore
              /\ resp'.body[1].id = resp'.target[1]
              /\ \A k \in 2 .. 5 :
                    \/ stores'[k] = stores[k]
                    \/ OnlyReplaced(stores[k], resp'.target[1], resp'.body[1], stores'[k])
              /\ Cardinality({k \in 2 .. 5 : stores'[k] # stores[k]}) <= 1
      ]_vars

\* A PUT has just set the status of a patient, whose name stays, while another
\* patient is stored.
C13_Witness ==
    /\ resp.route = "PUT /api/patients/:id" /\ resp.status = 200
    /\ "status" \in DOMAIN resp.body[1] /\ resp.body[1].status = "inactive"
    /\ resp.body[1].name = "n1"
    /\ Len(patientsStore) = 2

\* C14: updates are idempotent.  Whenever a step leaves a store as update(id, p)
\* of an existing record leaves it, the same update applied in the state after
\* the step returns the same record and leaves the store as it is.
C14_UpdateIdempotent ==
    [][ /\ \A id \in IdParams(MaxPatients), p \in PatientPayloads :
              LET once == UpdatePatient(id, p)
              IN  (GetPatient(id) # Undefined /\ patientsStore' = once.store) =>
                     UpdatePatient(id, p)' = once
        /\ \A id \in IdParams(MaxAppointments), p \in AppointmentPayloads :
              LET once == UpdateAppointment(id, p)
              IN  (GetAppointment(id) # Undefined /\ appointmentsStore' = once.store) =>
                     UpdateAppointment(id, p)' = once
        /\ \A id \in IdParams(MaxTemplates), p \in TemplatePayloads :
              LET once == UpdateWhatsappTemplate(id, p)
              IN  ( /\ GetWhatsappTemplate(id) # Undefined
                    /\ whatsappTemplatesStore' = once.store ) =>
                     UpdateWhatsappTemplate(id, p)' = once
      ]_vars

\* A PUT has just made a patient inactive, and the update that does so is among
\* the payloads: applied again, it finds the patient already inactive.
C14_Witness ==
    /\ resp.route = "PUT /api/patients/:id" /\ resp.status = 200
    /\ \E p \in PatientPayloads :
          /\ "status" \in DOMAIN p /\ p.status = "inactive"
          /\ UpdatePatient(resp.target[1], p).result = resp.body[1]

\* The records a store holds.
Stored(store) == {store[j].value : j \in DOMAIN store}

\* listing holds exactly the records of the set wanted, each once.
ExactlyThose(listing, wanted) ==
    /\ \A i \in DOMAIN listing : listing[i] \in wanted
    /\ \A record \in wanted : \E i \in DOMAIN listing : listing[i] = record
    /\ \A i, j \in DOMAIN listing : i # j => listing[i].id # listing[j].id

\* C15: appointments by date.  GET /api/appointments/date/:date for a day
\* written yyyy-mm-dd returns exactly the stored appointments of the caller
\* whose date is that day; for a date-time the day is the UTC day of the
\* instant, and a string that is no date is answered 500.  The response just
\* sent holds only appointments of the caller, all of one day, and all of the
\* caller's appointments of that day.
C15_AppointmentsByDate ==
    /\ (resp.route = "GET /api/appointments/date/:date" /\ resp.status = 200) =>
          \A i \in DOMAIN resp.body :
              ExactlyThose(resp.body,
                           {a \in Stored(appointmentsStore) :
                               a.userId = resp.caller /\ a.date = resp.body[i].date})
    /\ IsAuthenticated(Browser) =>
          \A d \in DateParams :
              LET o == GetAppointmentsForDateOutcome(Browser, d)
                  OfDay(day) ==
                      /\ o.reply.status = 200
                      /\ ExactlyThose(o.reply.body,
                                      {a \in Stored(appointmentsStore) :
                                          a.userId = session[Browser] /\ a.date = day})
              IN  /\ o.store = appointmentsStore
                  /\ o.counter = appointmentIdCounter
                  /\ CASE d \in {"2024-01-10", "2024-01-11"} -> OfDay(d)
                       [] d = "2024-01-10T22:00:00-03:00" -> OfDay("2024-01-11")
                       [] OTHER -> o.reply.status = 500

\* A practitioner's query for a day has just come back empty while the other
\* practitioner has appointments on both days.
C15_Witness ==
    /\ resp.route = "GET /api/appointments/date/:date" /\ resp.status = 200
    /\ resp.body = <<>> /\ resp.caller # Anonymous
    /\ \A day \in {"2024-01-10", "2024-01-11"} :
          \E j \in DOMAIN appointmentsStore :
              /\ appointmentsStore[j].value.date = day
              /\ appointmentsStore[j].value.userId # resp.caller

\* listing holds exactly the records of wanted, the earlier inserted first
\* (an insert takes the next id).
Listed(listing, wanted) ==
    /\ ExactlyThose(listing, wanted)
    /\ \A i, j \in DOMAIN listing : i < j => listing[i].id < listing[j].id

\* C16: scoped listings are exact and ordered.  The three listings by user
\* hold exactly the records of the collection with that userId and the two
\* listings by patient exactly those with that patientId, in insertion order;
\* and no step moves an entry of a collection to another position.
C16_ScopedListings ==
    /\ []  ( /\ \A u \in 1 .. MaxUsers :
                  /\ Listed(GetPatientsByUserId(u),
                            {r \in Stored(patientsStore) : r.userId = u})
                  /\ Listed(GetAppointmentsByUserId(u),
                            {r \in Stored(appointmentsStore) : r.userId = u})
                  /\ Listed(GetWhatsappTemplatesByUserId(u),
                            {r \in Stored(whatsappTemplatesStore) : r.userId = u})
             /\ \A p \in IdParams(MaxPatients) :
                  /\ Listed(GetAppointmentsByPatientId(p),
                            {r \in Stored(appointmentsStore) : r.patientId = p})
                  /\ Listed(GetMedicalRecordsByPatientId(p),
                            {r \in Stored(medicalRecordsStore) : r.patientId = p}) )
    /\ [][ \A k \in 1 .. 5 : \A i \in DOMAIN stores[k] :
              /\ i \in DOMAIN stores'[k]
              /\ stores'[k][i].key = stores[k][i].key
              /\ stores'[k][i].value.id = stores[k][i].value.id
      ]_vars

\* GET /api/appointments has just listed two appointments, the first inserted
\* first although its date is the later one.
C16_Witness ==
    /\ resp.route = "GET /api/appointments" /\ resp.status = 200
    /\ Len(resp.body) = 2
    /\ resp.body[1].id = 1 /\ resp.body[1].date = "2024-01-11"
    /\ resp.body[2].id = 2 /\ resp.body[2].date = "2024-01-10"

\* C17: no record is ever removed.  In every step, each id a collection holds
\* is still held after the step, by a record with that id, and no collection
\* gets smaller.
C17_NoRecordRemoved ==
    [][ \A k \in 1 .. 5 :
          \/ stores'[k] = stores[k]
          \/ /\ Len(stores'[k]) >= Len(stores[k])
             /\ \A i \in DOMAIN stores[k] :
                   LET id == stores[k][i].key
                   IN  /\ MapGet(stores[k], id).id = id
                       /\ MapGet(stores'[k], id) # Undefined
                       /\ MapGet(stores'[k], id).id = id
      ]_vars

\* A patient that has an appointment has just been made inactive and is still
\* stored.
C17_Witness ==
    /\ resp.route = "PUT /api/patients/:id" /\ resp.status = 200
    /\ "status" \in DOMAIN resp.body[1] /\ resp.body[1].status = "inactive"
    /\ GetPatient(resp.target[1]) = resp.body[1]
    /\ GetAppointmentsByPatientId(resp.target[1]) # <<>>

\* C18: medical records are append-only.  No step changes an entry of the
\* medical records store: a read of a stored id returns after the step what it
\* returned before it, a record just created is stored as it was returned, and
\* a listing returns records as they were stored.
C18_MedicalRecordsAppendOnly ==
    [][ /\ \A i \in DOMAIN medicalRecordsStore :
              /\ i \in DOMAIN medicalRecordsStore'
              /\ medicalRecordsStore'[i] = medicalRecordsStore[i]
        /\ \A id \in IdParams(MaxMedicalRecords) :
              GetMedicalRecord(id) # Undefined =>
                  GetMedicalRecord(id)' = GetMedicalRecord(id)
        /\ (resp'.route = "POST /api/medical-records" /\ resp'.status = 201) =>
              MapGet(medicalRecordsStore', resp'.body[1].id) = resp'.body[1]
        /\ ( /\ resp'.route = "GET /api/medical-records/patient/:patientId"
             /\ resp'.status = 200 ) =>
              \A i \in DOMAIN resp'.body :
                  resp'.body[i] \in Stored(medicalRecordsStore)
      ]_vars

\* The records of a patient have just been listed, after a second record was
\* created and the patient was made inactive.
C18_Witness ==
    /\ resp.route = "GET /api/medical-records/patient/:patientId"
    /\ resp.status = 200 /\ resp.body # <<>>
    /\ Len(medicalRecordsStore) = 2
    /\ "status" \in DOMAIN GetPatient(resp.target[1])
    /\ GetPatient(resp.target[1]).status = "inactive"

\* C19: a user is immutable after registration.  No step changes an entry of
\* the users store, and a step that is no successful register leaves the
\* store and its counter as they were.
C19_UserImmutable ==
    [][ /\ \A i \in DOMAIN usersStore :
              i \in DOMAIN usersStore' /\ usersStore'[i] = usersStore[i]
        /\ \A id \in 1 .. MaxUsers :
              GetUser(id) # Undefined => GetUser(id)' = GetUser(id)
        /\ ~(resp'.route = "POST /api/register" /\ resp'.status = 201) =>
              usersStore' = usersStore /\ userIdCounter' = userIdCounter
      ]_vars

\* The first user has just logged in again, after the second user registered
\* and records were created.
C19_Witness ==
    /\ resp.route = "POST /api/login" /\ resp.status = 200
    /\ resp.body[1].id = 1
    /\ Len(usersStore) = 2 /\ Records = MaxRecords

\* The ids of 0 .. max + 1 that no entry of store has as its key.
AbsentIds(store, max) ==
    {id \in 0 .. (max + 1) : \A i \in DOMAIN store : store[i].key # id}

\* C20: the store returns the not-found sentinel for a missing id.  In every
\* state a get of an absent id returns undefined, and an update of an absent id
\* returns undefined and the collection as it is; a PUT answered 404 leaves
\* every collection and every counter as it was.
C20_MissingIdSentinel ==
    /\ []  ( /\ \A id \in AbsentIds(usersStore, MaxUsers) : GetUser(id) = Undefined
             /\ \A id \in AbsentIds(medicalRecordsStore, MaxMedicalRecords) :
                   GetMedicalRecord(id) = Undefined
             /\ \A id \in AbsentIds(patientsStore, MaxPatients) :
                   /\ GetPatient(id) = Undefined
                   /\ \A p \in PatientPayloads :
                         UpdatePatient(id, p)
                            = [result |-> Undefined, store |-> patientsStore]
             /\ \A id \in AbsentIds(appointmentsStore, MaxAppointments) :
                   /\ GetAppointment(id) = Undefined
                   /\ \A p \in AppointmentPayloads :
                         UpdateAppointment(id, p)
                            = [result |-> Undefined, store |-> appointmentsStore]
             /\ \A id \in AbsentIds(whatsappTemplatesStore, MaxTemplates) :
                   /\ GetWhatsappTemplate(id) = Undefined
                   /\ \A p \in TemplatePayloads :
                         UpdateWhatsappTemplate(id, p)
                            = [result |-> Undefined, store |-> whatsappTemplatesStore] )
    /\ [][ (resp'.route \in UpdateRoutes /\ resp'.status = 404) =>
              stores' = stores /\ counters' = counters
      ]_vars

\* A PUT for a patient id that is not stored has just been answered 404 while
\* another patient is stored.
C20_Witness ==
    /\ resp.route = "PUT /api/patients/:id" /\ resp.status = 404
    /\ resp.target[1] \in AbsentIds(patientsStore, MaxPatients)
    /\ patientsStore # <<>>

\* The payloads of an insert into store: the fields of every record it holds,
\* inserted once more, and the fresh ones.
AgainOrFresh(store, fresh) == {WithoutId(r) : r \in Stored(store)} \cup fresh

\* created is the outcome of inserting payload into store under the id counter:
\* the record returned is payload and the id, an id no entry had; a get of that
\* id in the store after it returns that record; the entries before it are all
\* still there, followed by the new one.
InsertRoundTrip(store, counter, payload, created) ==
    /\ DOMAIN created.result = (DOMAIN payload) \cup {"id"}
    /\ \A f \in DOMAIN payload : created.result[f] = payload[f]
    /\ created.result.id = counter
    /\ \A i \in DOMAIN store : store[i].key # created.result.id
    /\ MapGet(created.store, created.result.id) = created.result
    /\ created.store = Append(store, [key |-> created.result.id, value |-> created.result])
    /\ \A r \in Stored(store) :
          WithoutId(r) = payload =>
             /\ r \in Stored(created.store) /\ created.result \in Stored(created.store)
             /\ r # created.result /\ WithoutId(created.result) = WithoutId(r)

\* C21: insert/get round trip.  In every state an insert into any of the five
\* collections, of a fresh payload or of the fields of a record already stored,
\* returns the payload with the next id and leaves a store in which a get of
\* that id returns the same record, beside every record stored before; and a
\* create request answered 201 returns the record a get of its id then finds.
C21_InsertGetRoundTrip ==
    /\ []  ( /\ \A p \in AgainOrFresh(usersStore,
                            {[username |-> <<99>>, email |-> <<99, 64, 120>>,
                              password |-> "pw1"]}) :
                   InsertRoundTrip(usersStore, userIdCounter, p, CreateUser(p))
             /\ \A p \in AgainOrFresh(patientsStore,
                            InsertPayloads(InsertPatientSchema, PatientCreateBodies)) :
                   InsertRoundTrip(patientsStore, patientIdCounter, p, CreatePatient(p))
             /\ \A p \in AgainOrFresh(appointmentsStore,
                            InsertPayloads(InsertAppointmentSchema, AppointmentCreateBodies)) :
                   InsertRoundTrip(appointmentsStore, appointmentIdCounter, p,
                                   CreateAppointment(p))
             /\ \A p \in AgainOrFresh(medicalRecordsStore,
                            InsertPayloads(InsertMedicalRecordSchema,
                                           MedicalRecordCreateBodies)) :
                   InsertRoundTrip(medicalRecordsStore, medicalRecordIdCounter, p,
                                   CreateMedicalRecord(p))
             /\ \A p \in AgainOrFresh(whatsappTemplatesStore,
                            InsertPayloads(InsertWhatsappTemplateSchema,
                                           TemplateCreateBodies)) :
                   InsertRoundTrip(whatsappTemplatesStore, whatsappTemplateIdCounter, p,
                                   CreateWhatsappTemplate(p)) )
    /\ [][ resp'.status = 201 =>
              LET record == resp'.body[1]
              IN  /\ resp'.route = "POST /api/register" =>
                        MapGet(usersStore', record.id) = record
                  /\ resp'.route = "POST /api/patients" =>
                        MapGet(patientsStore', record.id) = record
                  /\ resp'.route = "POST /api/appointments" =>
                        MapGet(appointmentsStore', record.id) = record
                  /\ resp'.route = "POST /api/medical-records" =>
                        MapGet(medicalRecordsStore', record.id) = record
                  /\ resp'.route = "POST /api/whatsapp-templates" =>
                        MapGet(whatsappTemplatesStore', record.id) = record
      ]_vars

\* The same patient has just been created a second time: the two stored
\* patients differ in their ids only, and the response carries the second.
C21_Witness ==
    /\ resp.route = "POST /api/patients" /\ resp.status = 201
    /\ Len(patientsStore) = 2
    /\ WithoutId(patientsStore[1].value) = WithoutId(patientsStore[2].value)
    /\ patientsStore[1].value # patientsStore[2].value
    /\ resp.body[1] = GetPatient(2)

\* The turn of PUT /api/patients/:id in slot h that calls updatePatient.
PutPatientWrites(h) ==
    At(h, "PUT /api/patients/:id", "getPatient") /\ inflight'[h].pc = "updatePatient"

\* The updates that the request of slot h hands to updatePatient.
PutPatientUpdates(h) ==
    Parse(Partial(InsertPatientSchema),
          Spread(inflight[h].body, [userId |-> Num(inflight[h].user.id)])).data

ResponseStatuses == {200, 201, 400, 401, 403, 404, 500}

\* C23: every request is answered exactly once.  A request that awaits a
\* storage call has not been answered, and is answered later; a request that
\* is over has been answered once; and the turn that answers a request sends
\* one response, of its route, with one of the statuses above, and ends it.
C23_AnsweredExactlyOnce ==
    /\ []  ( \A h \in Handlers :
                /\ inflight[h].pc = "idle" => inflight[h].answers = 0
                /\ inflight[h].pc = "done" => inflight[h].answers = 1
                /\ ~Free(h) => inflight[h].answers = 0 )
    /\ [][ \A h \in Handlers :
              inflight'[h] # inflight[h] =>
                 \/ /\ ~Free(h)' /\ resp' = resp
                 \/ /\ inflight'[h].pc = "done"
                    /\ resp'.route \in BusinessRoutes
                    /\ ~Free(h) => resp'.route = inflight[h].route
                    /\ resp'.status \in ResponseStatuses
                    /\ resp'.status \in {200, 201} <=> resp'.body # <<>>
      ]_vars
    /\ \A h \in Handlers : (~Free(h)) ~> (inflight[h].pc = "done")

\* While a create of an appointment awaits its patient, an update of a patient
\* that awaited its own has just been answered 400.
C23_Witness ==
    \E h, g \in Handlers :
       /\ At(g, "POST /api/appointments", "getPatient")
       /\ inflight[h].pc = "done"
       /\ resp.route = "PUT /api/patients/:id" /\ resp.status = 400

\* The status that the checks decide in the order authentication, validation,
\* existence, ownership: that of the first that fails, or success.
FirstFailing(authenticated, valid, exists, owned, success) ==
    IF ~authenticated THEN 401
    ELSE IF ~valid THEN 400
    ELSE IF ~exists THEN 404
    ELSE IF ~owned THEN 403
    ELSE success

\* The status of a request of client c with the given body that targets record
\* (undefined if the id it names is absent), by that order.
Ordered(c, schema, body, record, success) ==
    FirstFailing(IsAuthenticated(c),
                 Parse(schema, Spread(body, [userId |-> Num(session[c])])).ok,
                 record # Undefined,
                 record.userId = session[c],
                 success)

\* C24: check ordering.  In every state, each create and each PUT request that
\* the client can send is answered with the status of the first failing check
\* in the order authentication (401), body validation (400), existence of the
\* targeted id (404), ownership (403), and with success if none fails.
C24_CheckOrdering ==
    LET c == Browser
        Status(o, store, counter) == RequireAuth(c, o, store, counter).reply.status
        own == [userId |-> session[c]]
    IN  /\ \A body \in PatientCreateBodies :
              Status(PostPatientsOutcome(c, body), patientsStore, patientIdCounter)
                 = Ordered(c, InsertPatientSchema, body, own, 201)
        /\ \A body \in TemplateCreateBodies :
              Status(PostWhatsappTemplatesOutcome(c, body),
                     whatsappTemplatesStore, whatsappTemplateIdCounter)
                 = Ordered(c, InsertWhatsappTemplateSchema, body, own, 201)
        /\ \A body \in AppointmentCreateBodies :
              Status(PostAppointmentsOutcome(c, body),
                     appointmentsStore, appointmentIdCounter)
                 = Ordered(c, InsertAppointmentSchema, body,
                           GetPatient(body.patientId[2]), 201)
        /\ \A body \in MedicalRecordCreateBodies :
              Status(PostMedicalRecordsOutcome(c, body),
                     medicalRecordsStore, medicalRecordIdCounter)
                 = Ordered(c, InsertMedicalRecordSchema, body,
                           GetPatient(body.patientId[2]), 201)
        /\ \A id \in IdParams(MaxPatients), body \in PatientUpdateBodies :
              Status(PutPatientOutcome(c, id, body), patientsStore, patientIdCounter)
                 = Ordered(c, Partial(InsertPatientSchema), body, GetPatient(id), 200)
        /\ \A id \in IdParams(MaxAppointments), body \in AppointmentUpdateBodies :
              Status(PutAppointmentOutcome(c, id, body),
                     appointmentsStore, appointmentIdCounter)
                 = Ordered(c, Partial(InsertAppointmentSchema), body,
                           GetAppointment(id), 200)
        /\ \A id \in IdParams(MaxTemplates), body \in TemplateUpdateBodies :
              Status(PutWhatsappTemplateOutcome(c, id, body),
                     whatsappTemplatesStore, whatsappTemplateIdCounter)
                 = Ordered(c, Partial(InsertWhatsappTemplateSchema), body,
                           GetWhatsappTemplate(id), 200)

\* C25: ownership is immutable.  In every step, every patient, appointment and
\* WhatsApp template that is stored before the step has the same userId after
\* it, whatever userId the body of the request carried.
C25_OwnershipImmutable ==
    [][ \A k \in {2, 3, 5} :
           \/ stores'[k] = stores[k]
           \/ \A i \in DOMAIN stores[k] :
                 /\ i \in DOMAIN stores'[k]
                 /\ stores'[k][i].key = stores[k][i].key
                 /\ stores'[k][i].value.userId = stores[k][i].value.userId
      ]_vars

\* The second practitioner has just renamed a patient of theirs with the only
\* body that sets the name "n2", which carries the userId of the first.
C25_Witness ==
    /\ resp.route = "PUT /api/patients/:id" /\ resp.status = 200
    /\ resp.caller = 2
    /\ resp.body[1].name = "n2" /\ resp.body[1].userId = 2
    /\ GetPatient(resp.target[1]) = resp.body[1]

\* The statuses of a rejected request.
Rejections == {400, 401, 403, 404}

\* C26: rejected requests have no effect.  A step whose request is answered 400,
\* 401, 403 or 404 leaves the five collections and the five id counters as they
\* were; and a create that is answered 201 returns the id that follows the
\* records stored, however many requests were rejected before it.
C26_RejectedNoEffect ==
    [][ /\ resp'.status \in Rejections => stores' = stores /\ counters' = counters
        /\ resp'.status = 201 =>
              \E k \in 1 .. 5 :
                 /\ stores'[k] # stores[k]
                 /\ resp'.body[1].id = Len(stores[k]) + 1
                 /\ counters'[k] = resp'.body[1].id + 1
      ]_vars

\* After one appointment was created, a create of an appointment for a patient
\* of the other practitioner has just been answered 403.
C26_Witness ==
    /\ resp.route = "POST /api/appointments" /\ resp.status = 403
    /\ GetPatient(resp.target[1]) # Undefined
    /\ Len(appointmentsStore) = 1 /\ appointmentIdCounter = 2

\* The routes that create a record, with the collection (as numbered in stores)
\* that each writes and the await of its create call.
CreateCalls ==
    {[route |-> "POST /api/patients", k |-> 2, pc |-> "createPatient"],
     [route |-> "POST /api/appointments", k |-> 3, pc |-> "createAppointment"],
     [route |-> "POST /api/whatsapp-templates", k |-> 5, pc |-> "createWhatsappTemplate"]}

\* C27: ids stay unique under interleaving.  In every state of two handlers
\* that take turns at their awaits, each of the three collections holds under
\* the keys 1..n, n its size, records whose ids are their keys; a create that
\* awaits its answer holds the record stored under its id, and two of them hold
\* different ids; the turn that creates appends one entry under an id that no
\* entry had and changes no other entry.
C27_IdsUniqueInterleaved ==
    /\ []  ( \A call \in CreateCalls :
                LET store == stores[call.k]
                IN  /\ \A i \in DOMAIN store :
                          store[i].key = i /\ store[i].value.id = i
                    /\ counters[call.k] = Len(store) + 1
                    /\ \A h \in Handlers :
                          At(h, call.route, call.pc) =>
                             /\ MapGet(store, inflight[h].stored.id) = inflight[h].stored
                             /\ \A g \in Handlers \ {h} :
                                   At(g, call.route, call.pc) =>
                                      inflight[g].stored.id # inflight[h].stored.id )
    /\ [][ \A call \in CreateCalls :
              \/ stores'[call.k] = stores[call.k]
              \/ \E h \in Handlers :
                    /\ At(h, call.route, call.pc)'
                    /\ \A i \in DOMAIN stores[call.k] :
                          stores[call.k][i].key # inflight'[h].stored.id
                    /\ stores'[call.k]
                          = Append(stores[call.k], [key |-> inflight'[h].stored.id,
                                                    value |-> inflight'[h].stored])
      ]_vars

\* Two creates of a patient are in flight, neither answered yet: they hold the
\* ids 1 and 2, and both patients are stored.
C27_Witness ==
    /\ At("h1", "POST /api/patients", "createPatient")
    /\ At("h2", "POST /api/patients", "createPatient")
    /\ {inflight["h1"].stored.id, inflight["h2"].stored.id} = {1, 2}
    /\ Len(patientsStore) = 2

\* The keys of a store.
Keys(store) == {store[i].key : i \in DOMAIN store}

\* C28: key/id consistency.  In every state reachable through the routes, the
\* keys of each collection are exactly 1 .. counter - 1, each held once, the
\* record under a key has that key as its id, and what a route hands to the
\* store from a body never carries an id.
C28_KeyIdConsistency ==
    /\ \A k \in 1 .. 5 :
          /\ Keys(stores[k]) = 1 .. (counters[k] - 1)
          /\ Cardinality(Keys(stores[k])) = Len(stores[k])
          /\ \A key \in Keys(stores[k]) : MapGet(stores[k], key).id = key
    /\ \A p \in PatientPayloads \cup AppointmentPayloads \cup TemplatePayloads :
          "id" \notin DOMAIN p
    /\ \A p \in InsertPayloads(InsertPatientSchema, PatientCreateBodies)
                \cup InsertPayloads(InsertAppointmentSchema, AppointmentCreateBodies)
                \cup InsertPayloads(InsertMedicalRecordSchema, MedicalRecordCreateBodies)
                \cup InsertPayloads(InsertWhatsappTemplateSchema, TemplateCreateBodies) :
          "id" \notin DOMAIN p

\* The second patient has just been renamed by the only body that sets the
\* name "n2", which carries the id 7: the record keeps the id 2 of its key.
C28_Witness ==
    /\ resp.route = "PUT /api/patients/:id" /\ resp.status = 200
    /\ resp.target = Target(2)
    /\ resp.body[1].name = "n2" /\ resp.body[1].id = 2
    /\ GetPatient(2) = resp.body[1]


\* The request of client c that the step settles is one of the three
\* authentication requests, and it succeeded or not as given.
AuthSettled(c, routes, succeeded) ==
    /\ resp' # resp
    /\ resp'.client = c
    /\ resp'.route \in routes
    /\ (resp'.status >= 200 /\ resp'.status <= 299) <=> succeeded

====
